---------------------------- MODULE Spec2Model ----------------------------
(***************************************************************************)
(* Model of src/brain/nox_voice_relay.py: the voice relay's ingress        *)
(* handler, the single-flight gate around the three-tier dispatch, the     *)
(* circuit breaker guarding the calls to the bridge, the conversation      *)
(* store and the background sensor check.                                  *)
(*                                                                         *)
(* One action is one step of one thread that touches shared state at most  *)
(* once (one `with lock:` block, one unlocked read or write of a global,   *)
(* or one network completion).  Thread-local computation is folded into    *)
(* the step that precedes it.                                              *)
(***************************************************************************)
EXTENDS Integers, Sequences, FiniteSets, TLC

(***************************************************************************)
(* Bounds of the model                                                     *)
(***************************************************************************)
\* Number of add_exchange calls between two clears in SpecHistory.
MaxExchanges == 10
\* Number of voice events the upstream caller pushes in SpecGate.
GateEvents == 2
\* Number of voice events the upstream caller pushes in SpecBreaker.
BreakerEvents == 1
\* The clock stops advancing here.
MaxTime == 90
\* Seconds the clock advances in one Tick.
TickLen == 30

(***************************************************************************)
(* Program constants                                                       *)
(***************************************************************************)
\* BridgeCircuitBreaker.__init__ defaults
threshold == 5
retry_interval == 30
\* check_sensors
SENSOR_CHECK_INTERVAL == 60
\* battery thresholds of check_sensors, in tenths of a volt (6.8 V, 7.0 V)
BATT_LOW == 68
BATT_HIGH == 70
\* ConversationState
MAX_HISTORY == 8
\* the failure count at which bridge_get / bridge_post swap the endpoint
FAILOVER_AT == 2

CLOSED == "closed"
OPEN == "open"
HALF_OPEN == "half_open"

BRIDGE_URL == "lan"
BRIDGE_URL_TS == "tailscale"

\* time.time() at start-up lies far beyond every interval of the program, so the
\* first interval test against a zero-initialised timestamp passes.
BootTime == SENSOR_CHECK_INTERVAL

\* `faults` when the environment may fail any number of bridge requests
NoLimit == 0 - 1

(***************************************************************************)
(* Threads                                                                 *)
(***************************************************************************)
NumEvents == IF GateEvents > BreakerEvents THEN GateEvents ELSE BreakerEvents
Events == 1..NumEvents
Tv(e) == <<"voice", e>>
Ts(e) == <<"sensor", e>>
Tp == <<"probe", 0>>
VoiceThreads == {Tv(e) : e \in Events}
SensorThreads == {Ts(e) : e \in Events}
Threads == VoiceThreads \cup SensorThreads \cup {Tp}

(***************************************************************************)
(* Inputs                                                                  *)
(***************************************************************************)
\* Utterances the upstream caller may push (body["text"]).
Texts ==
    {"", "   ", "sit", "light", "what's the weather", "who is there",
     "wie geht es dir"}

\* str.strip() on the pushed texts.
Strip(s) == IF s = "   " THEN "" ELSE s

\* match_reflex(text) is not None, on the pushed texts ("light" is one edit
\* away from the trigger "right").
match_reflex(s) == s \in {"sit", "light"}

\* needs_agent(text): some AGENT_KEYWORDS entry occurs in the text.
needs_agent(s) == s \in {"light", "what's the weather", "who is there"}

\* any(w in text.lower() for w in vision_words)
vision_words(s) == s \in {"who is there"}

\* What the bridge answers to one request: a JSON object, a JSON value that is
\* no object, or an exception (timeout, refused connection, invalid JSON).
NetOutcomes == {"ok", "nondict", "fail"}

\* What a language-model call returns: a parsed object, None (or a falsy
\* value), or a truthy value that is no object (result.get then raises).
LlmOutcomes == {"dict", "none", "bad"}

\* battery_v readings in tenths of a volt: absent/0, low, between, high.
BattReadings == {0, 65, 69, 72}

VARIABLES
    now,               \* time.time()
    bridge_breaker,    \* the BridgeCircuitBreaker instance
    processing_lock,   \* _processing_lock: 0 when free, else the holding event
    history,           \* conversation._history
    last_sensor_check, \* _last_sensor_check
    battery_warned,    \* _battery_warned
    handler,           \* do_POST /voice/push of each event: where the handler is
    text,              \* the stripped text of each accepted event
    accepted,          \* the events in the order they were acknowledged
    pc,                \* each thread's call site
    stage,             \* each thread's position inside bridge_get / bridge_post
    grant,             \* the breaker state in which can_attempt let the call through
    s_now,             \* check_sensors' local `now`
    messages,          \* call_clawdbot_chat's local copy of the history
    dispatched,        \* the events in the order their directives reached the
                       \* network (consecutive directives of one event count once)
    llm_calls,         \* number of language-model calls made for each event
    faults,            \* bridge requests the environment may still fail
    obs,               \* the last operation on the breaker, as an observer saw it
    second,            \* whether the thread's record_failure brought the count to 2
    adding,            \* where a caller of add_exchange is, holding the store's lock
    exchanges,         \* number of add_exchange calls since the last clear
    replies,           \* what the language-model calls of each running dispatch
                       \* returned, in order
    delivered,         \* whether the bridge has answered a directive of the
                       \* running dispatch
    status_query,      \* a GET /status or /health request: its path, where
                       \* its handler is, what it answered, and what the
                       \* holder of the gate was doing at that moment
    reflex_call,       \* a call of match_reflex: its argument and what it
                       \* returned
    lev_call,          \* a call of _levenshtein: its arguments and what it
                       \* returned
    combo_call,        \* a call of send_combo: its arguments and the combo
                       \* it has handed to bridge_post
    parse_call,        \* a call of _parse_json_response: its argument and
                       \* what it returned
    network,           \* which of the two endpoints answer, whether that is
                       \* settled for good, and whether a call has succeeded
                       \* since
    client,            \* a caller that calls the bridge again and again:
                       \* where it is in bridge_get and the url it has read
    cleared,           \* whether /conversation/clear has completed, and the
                       \* events whose push had been acknowledged by then
    warning            \* how the post of the low-battery warning of each
                       \* check_sensors thread has ended, until the thread
                       \* has set the flag

vars == <<now, bridge_breaker, processing_lock, history, last_sensor_check,
          battery_warned, handler, text, accepted, pc, stage, grant, s_now,
          messages, dispatched, llm_calls, faults, obs, second, adding,
          exchanges, replies, delivered, status_query, reflex_call, lev_call,
          combo_call, parse_call, network, client, cleared, warning>>

(***************************************************************************)
(* BridgeCircuitBreaker                                                    *)
(***************************************************************************)
\* BridgeCircuitBreaker.__init__
BreakerInit ==
    [state |-> CLOSED, failures |-> 0, last_failure_time |-> 0,
     active_url |-> BRIDGE_URL]

\* Variant: a success recorded while the circuit is open is ignored.
record_success_unless_open(b) ==
    IF b.state = OPEN THEN b ELSE [b EXCEPT !.state = CLOSED, !.failures = 0]

\* Variant: a success closes the circuit and leaves the failure count.
record_success_keeps_count(b) == [b EXCEPT !.state = CLOSED]

\* record_success: state = CLOSED, failures = 0
record_success(b) ==
    [b EXCEPT !.state = CLOSED, !.failures = 0]

\* Variant: the circuit opens one failure late.
record_failure_late(b, t) ==
    [b EXCEPT !.failures = @ + 1,
              !.last_failure_time = t,
              !.state = IF b.failures + 1 > threshold THEN OPEN ELSE @]

\* record_failure at time t
record_failure(b, t) ==
    [b EXCEPT !.failures = @ + 1,
              !.last_failure_time = t,
              !.state = IF b.failures + 1 >= threshold THEN OPEN ELSE @]

\* Variant: a closed circuit that has seen failures goes on probation.
can_attempt_probing(b, t) ==
    IF b.state = CLOSED
    THEN [ret |-> TRUE,
          b |-> [b EXCEPT !.state = IF b.failures > 0 THEN HALF_OPEN ELSE @]]
    ELSE IF b.state = OPEN
         THEN IF t - b.last_failure_time >= retry_interval
              THEN [ret |-> TRUE, b |-> [b EXCEPT !.state = HALF_OPEN]]
              ELSE [ret |-> FALSE, b |-> b]
         ELSE [ret |-> TRUE, b |-> b]

\* Variant: an open circuit lets a trial call through without waiting.
can_attempt_eager(b, t) ==
    IF b.state = OPEN THEN [ret |-> TRUE, b |-> [b EXCEPT !.state = HALF_OPEN]]
    ELSE [ret |-> TRUE, b |-> b]

\* can_attempt at time t: the returned flag and the breaker afterwards
can_attempt(b, t) ==
    IF b.state = CLOSED THEN [ret |-> TRUE, b |-> b]
    ELSE IF b.state = OPEN
         THEN IF t - b.last_failure_time >= retry_interval
              THEN [ret |-> TRUE, b |-> [b EXCEPT !.state = HALF_OPEN]]
              ELSE [ret |-> FALSE, b |-> b]
         ELSE [ret |-> TRUE, b |-> b]

\* get_url
get_url(b) == b.active_url

\* Variant: swapping the endpoint starts the failure count afresh.
try_failover_reset(b) ==
    [b EXCEPT !.active_url = IF @ = BRIDGE_URL THEN BRIDGE_URL_TS ELSE BRIDGE_URL,
              !.failures = 0]

\* try_failover: swap between the two configured urls
try_failover(b) ==
    [b EXCEPT !.active_url = IF @ = BRIDGE_URL THEN BRIDGE_URL_TS ELSE BRIDGE_URL]

\* What an observer notes of one operation on the breaker: the operation, the
\* breaker state before it, how the call it belongs to passed can_attempt, the
\* time of a failure, and the number of failed calls since the last success.
Observe(op, g, t) ==
    [op |-> op, pre |-> bridge_breaker.state, grant |-> g,
     at |-> IF op = "record_failure" THEN t ELSE 0,
     streak |-> CASE op = "record_failure" -> obs.streak + 1
                  [] op = "record_success" -> 0
                  [] OTHER -> obs.streak]

(***************************************************************************)
(* ConversationState                                                       *)
(***************************************************************************)
\* Variant: the newest pair is evicted.
Evict_newest(h, max) ==
    IF Len(h) > max THEN SubSeq(h, 1, max) ELSE h

RECURSIVE Evict(_, _)
\* while len(self._history) > self._max: pop(0); pop(0)
Evict(h, max) ==
    IF Len(h) > max THEN Evict(Tail(Tail(h)), max) ELSE h

\* add_exchange with self._max = max_exchanges * 2
add_exchange(h, user_text, assistant_text) ==
    Evict(Append(Append(h, [role |-> "user", content |-> user_text]),
                 [role |-> "assistant", content |-> assistant_text]),
          MAX_HISTORY * 2)

(***************************************************************************)
(* match_reflex on texts as sequences of characters                        *)
(***************************************************************************)
\* The reflex table in the order of the dict literal: for each trigger the
\* actions, the speech and the mood.
REFLEXES == <<
    [trigger |-> <<"s", "i", "t", "z">>,
     actions |-> <<"sit">>, speak |-> "Mach ich!", emotion |-> "happy"],
    [trigger |-> <<"s", "i", "t">>,
     actions |-> <<"sit">>, speak |-> "Mach ich!", emotion |-> "happy"],
    [trigger |-> <<"s", "i", "t", " ", "d", "o", "w", "n">>,
     actions |-> <<"sit">>, speak |-> "Mach ich!", emotion |-> "happy"],
    [trigger |-> <<"h", "i", "n", "s", "e", "t", "z", "e", "n">>,
     actions |-> <<"sit">>, speak |-> "Jawohl!", emotion |-> "happy"],
    [trigger |-> <<"s", "e", "t", "z", " ", "d", "i", "c", "h">>,
     actions |-> <<"sit">>, speak |-> "Okay!", emotion |-> "happy"],
    [trigger |-> <<"s", "t", "e", "h">>,
     actions |-> <<"stand">>, speak |-> "Bin schon oben!", emotion |-> "happy"],
    [trigger |-> <<"s", "t", "e", "h", " ", "a", "u", "f">>,
     actions |-> <<"stand">>, speak |-> "Aufgestanden!", emotion |-> "excited"],
    [trigger |-> <<"s", "t", "a", "n", "d">>,
     actions |-> <<"stand">>, speak |-> "Stehe!", emotion |-> "happy"],
    [trigger |-> <<"s", "t", "a", "n", "d", " ", "u", "p">>,
     actions |-> <<"stand">>, speak |-> "Bin oben!", emotion |-> "happy"],
    [trigger |-> <<"a", "u", "f", "s", "t", "e", "h", "e", "n">>,
     actions |-> <<"stand">>, speak |-> "Jawohl!", emotion |-> "excited"],
    [trigger |-> <<"a", "u", "f">>,
     actions |-> <<"stand">>, speak |-> "Bin wach!", emotion |-> "happy"],
    [trigger |-> <<"p", "l", "a", "t", "z">>,
     actions |-> <<"lie">>, speak |-> "Gemütlich!", emotion |-> "sleepy"],
    [trigger |-> <<"l", "e", "g", " ", "d", "i", "c", "h">>,
     actions |-> <<"lie">>, speak |-> "Mach ich gerne.", emotion |-> "sleepy"],
    [trigger |-> <<"l", "e", "g", " ", "d", "i", "c", "h", " ", "h", "i", "n">>,
     actions |-> <<"lie">>, speak |-> "Schön hier unten.", emotion |-> "sleepy"],
    [trigger |-> <<"l", "i", "e">>,
     actions |-> <<"lie">>, speak |-> "Gemütlich!", emotion |-> "sleepy"],
    [trigger |-> <<"l", "i", "e", " ", "d", "o", "w", "n">>,
     actions |-> <<"lie">>, speak |-> "Hingelegt!", emotion |-> "sleepy"],
    [trigger |-> <<"d", "o", "w", "n">>,
     actions |-> <<"lie">>, speak |-> "Lege mich hin.", emotion |-> "sleepy"],
    [trigger |-> <<"k", "o", "m", "m">>,
     actions |-> <<"forward">>, speak |-> "Ich komme!", emotion |-> "excited"],
    [trigger |-> <<"k", "o", "m", "m", " ", "h", "e", "r">>,
     actions |-> <<"forward">>,
     speak |-> "Bin gleich da!", emotion |-> "excited"],
    [trigger |-> <<"k", "o", "m", "m", " ", "h", "i", "e", "r">>,
     actions |-> <<"forward">>,
     speak |-> "Bin gleich da!", emotion |-> "excited"],
    [trigger |-> <<"h", "i", "e", "r", "h", "e", "r">>,
     actions |-> <<"forward">>, speak |-> "Auf dem Weg!", emotion |-> "excited"],
    [trigger |-> <<"c", "o", "m", "e">>,
     actions |-> <<"forward">>, speak |-> "Ich komme!", emotion |-> "excited"],
    [trigger |-> <<"c", "o", "m", "e", " ", "h", "e", "r", "e">>,
     actions |-> <<"forward">>,
     speak |-> "Bin gleich da!", emotion |-> "excited"],
    [trigger |-> <<"f", "o", "r", "w", "a", "r", "d">>,
     actions |-> <<"forward">>, speak |-> "Los geht's!", emotion |-> "happy"],
    [trigger |-> <<"v", "o", "r", "w", "ä", "r", "t", "s">>,
     actions |-> <<"forward">>, speak |-> "Marsch!", emotion |-> "happy"],
    [trigger |-> <<"v", "o", "r">>,
     actions |-> <<"forward">>, speak |-> "Vorwärts!", emotion |-> "happy"],
    [trigger |-> <<"z", "u", "r", "ü", "c", "k">>,
     actions |-> <<"backward">>,
     speak |-> "Gehe zurück!", emotion |-> "neutral"],
    [trigger |-> <<"b", "a", "c", "k">>,
     actions |-> <<"backward">>, speak |-> "Rückwärts!", emotion |-> "neutral"],
    [trigger |-> <<"b", "a", "c", "k", "w", "a", "r", "d">>,
     actions |-> <<"backward">>,
     speak |-> "Gehe zurück!", emotion |-> "neutral"],
    [trigger |-> <<"g", "o", " ", "b", "a", "c", "k">>,
     actions |-> <<"backward">>,
     speak |-> "Bin schon dabei!", emotion |-> "neutral"],
    [trigger |-> <<"r", "ü", "c", "k", "w", "ä", "r", "t", "s">>,
     actions |-> <<"backward">>,
     speak |-> "Rückwärts marsch!", emotion |-> "neutral"],
    [trigger |-> <<"l", "i", "n", "k", "s">>,
     actions |-> <<"turn_left">>, speak |-> "Nach links!", emotion |-> "happy"],
    [trigger |-> <<"t", "u", "r", "n", " ", "l", "e", "f", "t">>,
     actions |-> <<"turn_left">>,
     speak |-> "Drehe mich links!", emotion |-> "happy"],
    [trigger |-> <<"l", "e", "f", "t">>,
     actions |-> <<"turn_left">>, speak |-> "Links rum!", emotion |-> "happy"],
    [trigger |-> <<"r", "e", "c", "h", "t", "s">>,
     actions |-> <<"turn_right">>,
     speak |-> "Nach rechts!", emotion |-> "happy"],
    [trigger |-> <<"t", "u", "r", "n", " ", "r", "i", "g", "h", "t">>,
     actions |-> <<"turn_right">>,
     speak |-> "Drehe mich rechts!", emotion |-> "happy"],
    [trigger |-> <<"r", "i", "g", "h", "t">>,
     actions |-> <<"turn_right">>, speak |-> "Rechts rum!", emotion |-> "happy"],
    [trigger |-> <<"w", "e", "d", "e", "l">>,
     actions |-> <<"wag_tail">>, speak |-> "Freude!", emotion |-> "happy"],
    [trigger |-> <<"w", "e", "d", "e", "l", "n">>,
     actions |-> <<"wag_tail">>, speak |-> "Wedel wedel!", emotion |-> "happy"],
    [trigger |-> <<"w", "a", "g">>,
     actions |-> <<"wag_tail">>, speak |-> "Wedel wedel!", emotion |-> "happy"],
    [trigger |-> <<"t", "a", "i", "l">>,
     actions |-> <<"wag_tail">>,
     speak |-> "Schwanzwedeln!", emotion |-> "happy"],
    [trigger |-> <<"w", "a", "g", " ", "t", "a", "i", "l">>,
     actions |-> <<"wag_tail">>,
     speak |-> "So macht man das!", emotion |-> "happy"],
    [trigger |-> <<"b", "e", "l", "l">>,
     actions |-> <<"bark">>, speak |-> "Wuff!", emotion |-> "excited"],
    [trigger |-> <<"b", "e", "l", "l", "e", "n">>,
     actions |-> <<"bark">>, speak |-> "Wuff wuff!", emotion |-> "excited"],
    [trigger |-> <<"b", "a", "r", "k">>,
     actions |-> <<"bark">>, speak |-> "Wuff!", emotion |-> "excited"],
    [trigger |-> <<"s", "p", "e", "a", "k">>,
     actions |-> <<"bark">>, speak |-> "Wuff wuff!", emotion |-> "excited"],
    [trigger |-> <<"s", "t", "r", "e", "t", "c", "h">>,
     actions |-> <<"stretch">>, speak |-> "Streck streck!", emotion |-> "happy"],
    [trigger |-> <<"s", "t", "r", "e", "c", "k", "e", "n">>,
     actions |-> <<"stretch">>, speak |-> "Das tut gut!", emotion |-> "happy"],
    [trigger |-> <<"s", "t", "r", "e", "c", "k", " ", "d", "i", "c", "h">>,
     actions |-> <<"stretch">>, speak |-> "Ahhh, schön!", emotion |-> "happy"],
    [trigger |-> <<"p", "u", "s", "h", " ", "u", "p">>,
     actions |-> <<"push_up">>,
     speak |-> "Eins, zwei, drei!", emotion |-> "proud"],
    [trigger |-> <<"p", "u", "s", "h", "u", "p">>,
     actions |-> <<"push_up">>, speak |-> "Sport frei!", emotion |-> "proud"],
    [trigger |-> <<"l", "i", "e", "g", "e", "s", "t", "ü", "t", "z">>,
     actions |-> <<"push_up">>, speak |-> "Fitness time!", emotion |-> "proud"],
    [trigger |-> <<"l", "i", "e", "g", "e", "s", "t", "ü", "t", "z", "e">>,
     actions |-> <<"push_up">>,
     speak |-> "Na dann mal los!", emotion |-> "proud"],
    [trigger |-> <<"h", "e", "u", "l">>,
     actions |-> <<"howling">>, speak |-> "Auuuuuu!", emotion |-> "sad"],
    [trigger |-> <<"h", "e", "u", "l", "e", "n">>,
     actions |-> <<"howling">>, speak |-> "Auuuuuuu!", emotion |-> "sad"],
    [trigger |-> <<"h", "o", "w", "l">>,
     actions |-> <<"howling">>, speak |-> "Auuuuuu!", emotion |-> "sad"],
    [trigger |-> <<"t", "r", "a", "b">>,
     actions |-> <<"trot">>, speak |-> "Trapp trapp!", emotion |-> "happy"],
    [trigger |-> <<"t", "r", "a", "b", "e", "n">>,
     actions |-> <<"trot">>, speak |-> "Im Trab!", emotion |-> "happy"],
    [trigger |-> <<"t", "r", "o", "t">>,
     actions |-> <<"trot">>,
     speak |-> "Trapp trapp trapp!", emotion |-> "happy"],
    [trigger |-> <<"s", "c", "h", "l", "a", "f">>,
     actions |-> <<"doze_off">>,
     speak |-> "Gute Nacht...", emotion |-> "sleepy"],
    [trigger |-> <<"s", "c", "h", "l", "a", "f", "e", "n">>,
     actions |-> <<"doze_off">>,
     speak |-> "Schlaf gut...", emotion |-> "sleepy"],
    [trigger |-> <<"s", "l", "e", "e", "p">>,
     actions |-> <<"doze_off">>, speak |-> "Zzzzz...", emotion |-> "sleepy"],
    [trigger |-> <<"n", "a", "p">>,
     actions |-> <<"doze_off">>,
     speak |-> "Ein Nickerchen...", emotion |-> "sleepy"],
    [trigger |-> <<"p", "e", "n", "n">>,
     actions |-> <<"doze_off">>, speak |-> "Augen zu...", emotion |-> "sleepy"],
    [trigger |-> <<"k", "o", "p", "f", " ", "s", "c", "h", "ü", "t", "t",
                  "e", "l", "n">>,
     actions |-> <<"shake_head">>,
     speak |-> "Nein nein!", emotion |-> "confused"],
    [trigger |-> <<"s", "c", "h", "ü", "t", "t", "e", "l">>,
     actions |-> <<"shake_head">>, speak |-> "Nö!", emotion |-> "confused"],
    [trigger |-> <<"s", "h", "a", "k", "e">>,
     actions |-> <<"shake_head">>, speak |-> "Nein!", emotion |-> "confused"],
    [trigger |-> <<"s", "h", "a", "k", "e", " ", "h", "e", "a", "d">>,
     actions |-> <<"shake_head">>,
     speak |-> "Kopfschütteln!", emotion |-> "confused"],
    [trigger |-> <<"h", "e", "c", "h", "e", "l", "n">>,
     actions |-> <<"pant">>, speak |-> "Hechel hechel!", emotion |-> "happy"],
    [trigger |-> <<"h", "e", "c", "h", "e", "l">>,
     actions |-> <<"pant">>, speak |-> "Hechel!", emotion |-> "happy"],
    [trigger |-> <<"p", "a", "n", "t">>,
     actions |-> <<"pant">>, speak |-> "Hechel hechel!", emotion |-> "happy"],
    [trigger |-> <<"n", "i", "c", "k">>,
     actions |-> <<"nod">>, speak |-> "Ja ja!", emotion |-> "happy"],
    [trigger |-> <<"n", "i", "c", "k", "e", "n">>,
     actions |-> <<"nod">>, speak |-> "Genau!", emotion |-> "happy"],
    [trigger |-> <<"n", "o", "d">>,
     actions |-> <<"nod">>, speak |-> "Jawohl!", emotion |-> "happy"],
    [trigger |-> <<"b", "r", "a", "v", "e", "r", " ", "h", "u", "n", "d">>,
     actions |-> <<"sit", "wag_tail">>, speak |-> "Danke!", emotion |-> "love"],
    [trigger |-> <<"g", "o", "o", "d", " ", "b", "o", "y">>,
     actions |-> <<"sit", "wag_tail">>,
     speak |-> "Danke! Das freut mich!", emotion |-> "love"],
    [trigger |-> <<"g", "o", "o", "d", " ", "d", "o", "g">>,
     actions |-> <<"wag_tail">>, speak |-> "Vielen Dank!", emotion |-> "love"],
    [trigger |-> <<"g", "u", "t", "e", "r", " ", "h", "u", "n", "d">>,
     actions |-> <<"sit", "wag_tail">>,
     speak |-> "Das höre ich gerne!", emotion |-> "love"],
    [trigger |-> <<"b", "r", "a", "v">>,
     actions |-> <<"wag_tail">>, speak |-> "Danke!", emotion |-> "love"],
    [trigger |-> <<"s", "t", "o", "p", "p">>,
     actions |-> <<"stand">>, speak |-> "Angehalten!", emotion |-> "alert"],
    [trigger |-> <<"s", "t", "o", "p">>,
     actions |-> <<"stand">>, speak |-> "Stoppe!", emotion |-> "alert"],
    [trigger |-> <<"h", "a", "l", "t">>,
     actions |-> <<"stand">>, speak |-> "Halt!", emotion |-> "alert"],
    [trigger |-> <<"s", "t", "i", "l", "l">>,
     actions |-> <<"stand">>, speak |-> "Bin still.", emotion |-> "neutral"],
    [trigger |-> <<"h", "a", "l", "l", "o">>,
     actions |-> <<"wag_tail", "bark">>,
     speak |-> "Hallo! Schön dich zu sehen!", emotion |-> "excited"],
    [trigger |-> <<"h", "e", "l", "l", "o">>,
     actions |-> <<"wag_tail", "bark">>,
     speak |-> "Hallo!", emotion |-> "excited"],
    [trigger |-> <<"h", "i">>,
     actions |-> <<"wag_tail">>, speak |-> "Hi!", emotion |-> "happy"],
    [trigger |-> <<"h", "e", "y">>,
     actions |-> <<"wag_tail">>, speak |-> "Hey!", emotion |-> "happy"],
    [trigger |-> <<"m", "o", "i", "n">>,
     actions |-> <<"wag_tail", "bark">>,
     speak |-> "Moin moin!", emotion |-> "excited"]
>>

\* if len(cleaned) >= 3
MIN_FUZZY_LEN == 3
\* if abs(len(trigger) - len(cleaned)) > 3: continue
MAX_LEN_DIFF == 3
\* best_dist = 999
NO_DIST == 999
\* max_dist = 1 if len(trigger) <= 5 else 2
SHORT_TRIGGER == 5

\* The upper-case letters of the inputs and what str.lower() makes of them
UPPER ==
    <<"A", "B", "C", "D", "E", "F", "G", "H", "I", "J", "K", "L", "M", "N",
      "O", "P", "Q", "R", "S", "T", "U", "V", "W", "X", "Y", "Z", "Ä", "Ö",
      "Ü">>
LOWER ==
    <<"a", "b", "c", "d", "e", "f", "g", "h", "i", "j", "k", "l", "m", "n",
      "o", "p", "q", "r", "s", "t", "u", "v", "w", "x", "y", "z", "ä", "ö",
      "ü">>

\* str.lower()
lower(s) ==
    [i \in 1..Len(s) |->
        IF \E k \in 1..Len(UPPER) : UPPER[k] = s[i]
        THEN LOWER[CHOOSE k \in 1..Len(UPPER) : UPPER[k] = s[i]]
        ELSE s[i]]

RECURSIVE lstrip(_)
lstrip(s) == IF s # <<>> /\ s[1] = " " THEN lstrip(Tail(s)) ELSE s

RECURSIVE rstrip(_)
rstrip(s) ==
    IF s # <<>> /\ s[Len(s)] = " " THEN rstrip(SubSeq(s, 1, Len(s) - 1)) ELSE s

\* str.strip() (the inputs hold no whitespace but the blank)
strip(s) == rstrip(lstrip(s))

\* str.startswith, str.endswith
startswith(s, prefix) ==
    Len(prefix) <= Len(s) /\ SubSeq(s, 1, Len(prefix)) = prefix
endswith(s, suffix) ==
    /\ Len(suffix) <= Len(s)
    /\ SubSeq(s, Len(s) - Len(suffix) + 1, Len(s)) = suffix

\* for noise in [...]: the list of prefixes in its order
NOISE_PREFIXES ==
    <<<<"n", "o", "x", " ">>,
      <<"h", "e", "y", " ", "n", "o", "x", " ">>,
      <<"n", "o", "x", ",", " ">>,
      <<"h", "e", "y", " ", "n", "o", "x", ",", " ">>,
      <<"o", "k", "a", "y", " ">>,
      <<"b", "i", "t", "t", "e", " ">>,
      <<"m", "a", "l", " ">>,
      <<"p", "l", "e", "a", "s", "e", " ">>>>

\* for suffix in [...]: the list of suffixes in its order
NOISE_SUFFIXES ==
    <<<<" ", "b", "i", "t", "t", "e">>,
      <<" ", "p", "l", "e", "a", "s", "e">>,
      <<" ", "m", "a", "l">>>>

RECURSIVE strip_prefixes(_, _)
\* if cleaned.startswith(noise): cleaned = cleaned[len(noise):].strip()
strip_prefixes(cleaned, k) ==
    IF k > Len(NOISE_PREFIXES) THEN cleaned
    ELSE strip_prefixes(
             IF startswith(cleaned, NOISE_PREFIXES[k])
             THEN strip(SubSeq(cleaned, Len(NOISE_PREFIXES[k]) + 1,
                               Len(cleaned)))
             ELSE cleaned,
             k + 1)

RECURSIVE strip_suffixes(_, _)
\* if cleaned.endswith(suffix): cleaned = cleaned[:-len(suffix)].strip()
strip_suffixes(cleaned, k) ==
    IF k > Len(NOISE_SUFFIXES) THEN cleaned
    ELSE strip_suffixes(
             IF endswith(cleaned, NOISE_SUFFIXES[k])
             THEN strip(SubSeq(cleaned, 1,
                               Len(cleaned) - Len(NOISE_SUFFIXES[k])))
             ELSE cleaned,
             k + 1)

\* `cleaned` when match_reflex starts matching
clean(s) == strip_suffixes(strip_prefixes(strip(lower(s)), 1), 1)

\* min(insertions, deletions, substitutions)
min(a, b, c) ==
    IF a <= b THEN (IF a <= c THEN a ELSE c) ELSE (IF b <= c THEN b ELSE c)

\* Loops are unfolded by halves: the passes lo..mid first, then the passes
\* mid+1..hi on what the first half has produced (the test on the first half's
\* result makes it be computed before the second half starts).

\* Variant: a substitution is charged even where the two characters agree.
curr_row_step_always_substitutes(prev_row, c1, s2, j, row) ==
    Append(row,
           min(prev_row[j + 1] + 1,
               row[j] + 1,
               prev_row[j] + 1))

\* curr_row.append(min(insertions, deletions, substitutions)) for column j
curr_row_step(prev_row, c1, s2, j, row) ==
    Append(row,
           min(prev_row[j + 1] + 1,
               row[j] + 1,
               prev_row[j] + (IF c1 # s2[j] THEN 1 ELSE 0)))

RECURSIVE curr_row(_, _, _, _, _, _)
\* the inner loop of _levenshtein, `for j, c2 in enumerate(s2)`, for the
\* columns lo..hi
curr_row(prev_row, c1, s2, lo, hi, row) ==
    IF lo > hi THEN row
    ELSE IF lo = hi THEN curr_row_step(prev_row, c1, s2, lo, row)
    ELSE LET mid == (lo + hi) \div 2
             first == curr_row(prev_row, c1, s2, lo, mid, row)
         IN  IF Len(first) > 0
             THEN curr_row(prev_row, c1, s2, mid + 1, hi, first)
             ELSE row

RECURSIVE rows(_, _, _, _, _)
\* the outer loop of _levenshtein, `for i, c1 in enumerate(s1)`, for the
\* characters lo..hi of s1: curr_row = [i + 1], the inner loop,
\* prev_row = curr_row
rows(prev_row, s1, s2, lo, hi) ==
    IF lo > hi THEN prev_row
    ELSE IF lo = hi THEN curr_row(prev_row, s1[lo], s2, 1, Len(s2), <<lo>>)
    ELSE LET mid == (lo + hi) \div 2
             first == rows(prev_row, s1, s2, lo, mid)
         IN  IF Len(first) > 0
             THEN rows(first, s1, s2, mid + 1, hi)
             ELSE prev_row

\* _levenshtein(s1, s2)
levenshtein(s1, s2) ==
    LET a == IF Len(s1) < Len(s2) THEN s2 ELSE s1
        b == IF Len(s1) < Len(s2) THEN s1 ELSE s2
        last_row == rows([j \in 1..Len(b) + 1 |-> j - 1], a, b, 1, Len(a))
    IN  IF Len(b) = 0 THEN Len(a) ELSE last_row[Len(last_row)]

\* abs(len(trigger) - len(cleaned))
abs(n) == IF n < 0 THEN 0 - n ELSE n

\* What match_reflex returns: None, or the entry of a trigger together with
\* how it was found (the locals best_match and best_dist)
None == [via |-> "none"]
Found(via, k, dist) ==
    [via |-> via, trigger |-> REFLEXES[k].trigger, dist |-> dist,
     entry |-> [actions |-> REFLEXES[k].actions, speak |-> REFLEXES[k].speak,
                emotion |-> REFLEXES[k].emotion]]

\* Variant: a later trigger at the same distance replaces the earlier one.
better_or_equal(dist, max_dist, best_dist) ==
    dist <= max_dist /\ dist <= best_dist

\* if dist <= max_dist and dist < best_dist
better(dist, max_dist, best_dist) == dist <= max_dist /\ dist < best_dist

\* One pass of `for trigger in REFLEXES:`, for the k-th trigger; best is what
\* the loop has found so far (best_match, 0 for None, and best_dist)
fuzzy_step(cleaned, k, best) ==
    LET trigger == REFLEXES[k].trigger
        dist == levenshtein(cleaned, trigger)
        max_dist == IF Len(trigger) <= SHORT_TRIGGER THEN 1 ELSE 2
    IN  IF abs(Len(trigger) - Len(cleaned)) > MAX_LEN_DIFF THEN best
        ELSE IF better(dist, max_dist, best.dist)
             THEN [match |-> k, dist |-> dist]
             ELSE best

RECURSIVE fuzzy_loop(_, _, _, _)
\* The passes for the triggers lo..hi in table order: those of the first half,
\* then those of the second half with what the first half has found
fuzzy_loop(cleaned, lo, hi, best) ==
    IF lo > hi THEN best
    ELSE IF lo = hi THEN fuzzy_step(cleaned, lo, best)
    ELSE LET mid == (lo + hi) \div 2
             first == fuzzy_loop(cleaned, lo, mid, best)
         IN  IF first.match >= 0
             THEN fuzzy_loop(cleaned, mid + 1, hi, first)
             ELSE best

\* 2. Fuzzy Match: the loop over the table, then `if best_match:`
fuzzy_match(cleaned) ==
    LET best == fuzzy_loop(cleaned, 1, Len(REFLEXES),
                           [match |-> 0, dist |-> NO_DIST])
    IN  IF best.match # 0 THEN Found("fuzzy", best.match, best.dist) ELSE None

\* Variant: the table is searched by distance alone, the exact lookup left out.
match_cleaned_fuzzy_only(cleaned) ==
    IF Len(cleaned) >= MIN_FUZZY_LEN THEN fuzzy_match(cleaned) ELSE None

\* match_reflex from `1. Exakter Match` on
match_cleaned(cleaned) ==
    IF \E k \in 1..Len(REFLEXES) : REFLEXES[k].trigger = cleaned
    THEN Found("exact",
               CHOOSE k \in 1..Len(REFLEXES) : REFLEXES[k].trigger = cleaned,
               0)
    ELSE IF Len(cleaned) >= MIN_FUZZY_LEN THEN fuzzy_match(cleaned) ELSE None

\* match_reflex(text)
MatchReflex(s) == match_cleaned(clean(s))

\* The triggers of the table
Triggers == {REFLEXES[k].trigger : k \in 1..Len(REFLEXES)}

\* A trigger as it is spoken to the robot: capitalised, with the robot's name
\* before it and a "bitte" after it, between blanks.
Spoken(t) ==
    <<" ", "H", "e", "y", " ", "N", "o", "x", " ">>
        \o <<UPPER[CHOOSE k \in 1..Len(LOWER) : LOWER[k] = t[1]]>> \o Tail(t)
        \o <<" ", "b", "i", "t", "t", "e", " ">>

\* A trigger as the recogniser may mishear it: a letter dropped at either
\* end, the first letter replaced, one or two letters added.
Misheard(t) ==
    {Tail(t), SubSeq(t, 1, Len(t) - 1), <<"x">> \o Tail(t), t \o <<"z">>,
     t \o <<"z", "z">>, <<"e">> \o t \o <<"n">>}

\* Texts that are no trigger and near none
Unrelated ==
    {<<>>, <<" ">>, <<"x">>, <<"h", "a">>, <<"s", "i">>, <<"o", "k">>,
     <<"x", "y", "z">>, <<"q", "u", "a", "r", "k">>,
     <<"w", "i", "e", " ", "g", "e", "h", "t", " ", "e", "s">>}

\* The arguments match_reflex is called with
ReflexInputs ==
    Triggers \cup {Spoken(t) : t \in Triggers}
             \cup UNION {Misheard(t) : t \in Triggers} \cup Unrelated

\* The characters and the longest string _levenshtein is called with
LevAlphabet == {"a", "b"}
LevMaxLen == 4

\* The strings of at most n characters
Strings(n) == UNION {[1..k -> LevAlphabet] : k \in 0..n}

(***************************************************************************)
(* Call sites                                                              *)
(***************************************************************************)
\* The call sites that are a bridge_get
GetSites == {"t2_status", "t2_look", "s_status", "p_get1", "p_get2"}
\* The call sites that are a bridge_post, and the directive each carries
PostSites == {"t1_combo", "t3_filler", "t3_combo", "t2_combo", "t2_apology",
              "emergency", "s_warn"}
BridgeSites == GetSites \cup PostSites

\* Variant: the tool-need keywords are looked at before the reflex table.
FirstSite_keywords_first(s) ==
    IF needs_agent(s) THEN "t3_filler"
    ELSE IF match_reflex(s) THEN "t1_combo"
    ELSE "t2_status"

\* Variant: the tool-augmented call is made without the filler acknowledgment.
FirstSite_no_filler(s) ==
    IF match_reflex(s) THEN "t1_combo"
    ELSE IF needs_agent(s) THEN "t3_llm"
    ELSE "t2_status"

\* The first call site of _process_voice_inner for a text
FirstSite(s) ==
    IF match_reflex(s) THEN "t1_combo"
    ELSE IF needs_agent(s) THEN "t3_filler"
    ELSE "t2_status"

\* Variant: when the directive of the conversational tier cannot be delivered
\* the apology is sent after it.
AfterCall_apology_on_error(site, res, s) ==
    CASE site = "t1_combo" -> "release"
      [] site = "t3_filler" -> "t3_llm"
      [] site = "t3_combo" -> "t3_add"
      [] site = "t2_status" ->
            IF res = "nondict" THEN "emergency"
            ELSE IF vision_words(s) THEN "t2_look" ELSE "t2_chat"
      [] site = "t2_look" -> IF res = "nondict" THEN "emergency" ELSE "t2_chat"
      [] site = "t2_combo" ->
            IF res \in {"error", "circuit_open"} THEN "t2_apology" ELSE "t2_add"
      [] site = "t2_apology" -> "release"
      [] site = "emergency" -> "release"
      [] site = "s_status" -> IF res = "ok" THEN "s_decide" ELSE "done"
      [] site = "s_warn" -> "s_mark"
      [] site = "p_get1" ->
            IF res \in {"ok", "nondict"} THEN "done" ELSE "p_failover"
      [] site = "p_get2" -> "done"

\* Variant: a reflex is recorded in the conversation history.
AfterCall_reflex_recorded(site, res, s) ==
    CASE site = "t1_combo" -> "t2_add"
      [] site = "t3_filler" -> "t3_llm"
      [] site = "t3_combo" -> "t3_add"
      [] site = "t2_status" ->
            IF res = "nondict" THEN "emergency"
            ELSE IF vision_words(s) THEN "t2_look" ELSE "t2_chat"
      [] site = "t2_look" -> IF res = "nondict" THEN "emergency" ELSE "t2_chat"
      [] site = "t2_combo" -> "t2_add"
      [] site = "t2_apology" -> "release"
      [] site = "emergency" -> "release"
      [] site = "s_status" -> IF res = "ok" THEN "s_decide" ELSE "done"
      [] site = "s_warn" -> "s_mark"
      [] site = "p_get1" ->
            IF res \in {"ok", "nondict"} THEN "done" ELSE "p_failover"
      [] site = "p_get2" -> "done"

\* Where the caller goes when the bridge call at `site` returned `res`
\* ("ok", "nondict", "error" or "circuit_open").
AfterCall(site, res, s) ==
    CASE site = "t1_combo" -> "release"
      [] site = "t3_filler" -> "t3_llm"
      [] site = "t3_combo" -> "t3_add"
      [] site = "t2_status" ->
            IF res = "nondict" THEN "emergency"
            ELSE IF vision_words(s) THEN "t2_look" ELSE "t2_chat"
      [] site = "t2_look" -> IF res = "nondict" THEN "emergency" ELSE "t2_chat"
      [] site = "t2_combo" -> "t2_add"
      [] site = "t2_apology" -> "release"
      [] site = "emergency" -> "release"
      [] site = "s_status" -> IF res = "ok" THEN "s_decide" ELSE "done"
      [] site = "s_warn" -> "s_mark"
      [] site = "p_get1" ->
            IF res \in {"ok", "nondict"} THEN "done" ELSE "p_failover"
      [] site = "p_get2" -> "done"

\* Variant: a failed conversational call is treated like an empty directive,
\* which is sent and remembered.
AfterLlm_no_apology(site, o) ==
    CASE o = "bad" -> "emergency"
      [] o = "dict" -> IF site = "t3_llm" THEN "t3_combo" ELSE "t2_combo"
      [] o = "none" -> IF site = "t3_llm" THEN "t2_status" ELSE "t2_combo"

\* Variant: process_voice without its except branch: what the dispatch raises
\* on ends it, the gate being released on the way out.
AfterLlm_uncaught(site, o) ==
    CASE o = "bad" -> "release"
      [] o = "dict" -> IF site = "t3_llm" THEN "t3_combo" ELSE "t2_combo"
      [] o = "none" -> IF site = "t3_llm" THEN "t2_status" ELSE "t2_apology"

\* Variant: a failed tool-augmented call ends the dispatch with the apology.
AfterLlm_no_fallback(site, o) ==
    CASE o = "bad" -> "emergency"
      [] o = "dict" -> IF site = "t3_llm" THEN "t3_combo" ELSE "t2_combo"
      [] o = "none" -> "t2_apology"

\* Where _process_voice_inner goes when the language-model call returned `o`
AfterLlm(site, o) ==
    CASE o = "bad" -> "emergency"
      [] o = "dict" -> IF site = "t3_llm" THEN "t3_combo" ELSE "t2_combo"
      [] o = "none" -> IF site = "t3_llm" THEN "t2_status" ELSE "t2_apology"

StageOf(site) == IF site \in BridgeSites THEN "attempt" ELSE "none"

TextOf(t) == IF t[1] = "voice" THEN text[t[2]] ELSE ""

\* thread t moves to call site p
Goto(t, p) ==
    /\ pc' = [pc EXCEPT ![t] = p]
    /\ stage' = [stage EXCEPT ![t] = StageOf(p)]
    /\ grant' = [grant EXCEPT ![t] = "none"]

\* bridge_get / bridge_post of thread t returns res to its caller
Return(t, res) == Goto(t, AfterCall(pc[t], res, TextOf(t)))

\* match_reflex has not been called
NoCall == [text |-> <<>>, ret |-> [via |-> "pending"]]

\* _levenshtein has not been called
NoDistance == [s1 |-> <<>>, s2 |-> <<>>, ret |-> -1]

\* send_combo has not been called
NoCombo == [at |-> "none"]

\* _parse_json_response has not been called
NoParse == [text |-> <<>>, ret |-> [via |-> "pending"]]

\* No GET request has arrived
NoQuery == [path |-> "", at |-> "none"]

(***************************************************************************)
(* Initial states: main() has started the server and the probe thread.     *)
(* InitWith(n, probe, k, checked): n events will be pushed; the probe      *)
(* thread is still to run (or has returned, the bridge having answered);   *)
(* the environment may fail k bridge requests; check_sensors last ran at   *)
(* time `checked` (0: never).                                              *)
(***************************************************************************)
InitWith(n, probe, k, checked) ==
    /\ now = BootTime
    /\ bridge_breaker = BreakerInit
    /\ processing_lock = 0
    /\ history = <<>>
    /\ last_sensor_check = checked
    /\ battery_warned = FALSE
    /\ handler = [e \in Events |-> IF e <= n THEN "idle" ELSE "off"]
    /\ text = [e \in Events |-> ""]
    /\ accepted = <<>>
    /\ pc = [t \in Threads |-> IF t = Tp THEN (IF probe THEN "p_get1" ELSE "done")
                                ELSE "unborn"]
    /\ stage = [t \in Threads |-> IF t = Tp /\ probe THEN "attempt" ELSE "none"]
    /\ grant = [t \in Threads |-> "none"]
    /\ s_now = [e \in Events |-> 0]
    /\ messages = [e \in Events |-> <<>>]
    /\ dispatched = <<>>
    /\ llm_calls = [e \in Events |-> 0]
    /\ faults = k
    /\ obs = [op |-> "none", pre |-> CLOSED, grant |-> "none", at |-> 0,
              streak |-> 0]
    /\ second = [t \in Threads |-> FALSE]
    /\ adding = "idle"
    /\ exchanges = 0
    /\ replies = [e \in Events |-> <<>>]
    /\ delivered = [e \in Events |-> FALSE]
    /\ status_query = NoQuery
    /\ reflex_call = NoCall
    /\ lev_call = NoDistance
    /\ combo_call = NoCombo
    /\ parse_call = NoParse
    /\ network = [up |-> {BRIDGE_URL, BRIDGE_URL_TS}, settled |-> FALSE,
                  served |-> FALSE]
    /\ client = [at |-> "idle", url |-> BRIDGE_URL]
    /\ cleared = [done |-> FALSE, before |-> {}]
    /\ warning = [e \in Events |-> "none"]

(***************************************************************************)
(* The clock                                                               *)
(***************************************************************************)
\* Some thread is about to read the clock: can_attempt with the circuit open,
\* record_failure, or check_sensors' interval test.
ClockIsRead ==
    \E t \in Threads :
        \/ stage[t] = "attempt" /\ bridge_breaker.state = OPEN
        \/ stage[t] = "net" /\ faults # 0
        \/ pc[t] = "s_check"

\* Time passes.  A tick commutes with every step that does not read the clock,
\* so it is taken only where the next step may read it.
Tick ==
    /\ now + TickLen <= MaxTime
    /\ ClockIsRead
    /\ now' = now + TickLen
    /\ UNCHANGED <<bridge_breaker, processing_lock, history, last_sensor_check,
                   battery_warned, handler, text, accepted, pc, stage, grant,
                   s_now, messages, dispatched, llm_calls, faults, obs, second,
                   adding, exchanges, replies, delivered, status_query,
                   reflex_call, lev_call, combo_call, parse_call, network,
                   client, cleared, warning>>

(***************************************************************************)
(* VoiceRelayHandler.do_POST                                               *)
(***************************************************************************)
\* /voice/push up to the acknowledgment: 400 for an empty text, else the
\* positive acknowledgment.
do_POST_push(e) ==
    /\ handler[e] = "idle"
    /\ \E body \in Texts :
          IF Strip(body) = ""
          THEN /\ handler' = [handler EXCEPT ![e] = "rejected"]
               /\ UNCHANGED <<text, accepted>>
          ELSE /\ handler' = [handler EXCEPT ![e] = "acked"]
               /\ text' = [text EXCEPT ![e] = Strip(body)]
               /\ accepted' = Append(accepted, e)
    /\ UNCHANGED <<now, bridge_breaker, processing_lock, history,
                   last_sensor_check, battery_warned, pc, stage, grant, s_now,
                   messages, dispatched, llm_calls, faults, obs, second,
                   adding, exchanges, replies, delivered, status_query,
                   reflex_call, lev_call, combo_call, parse_call, network,
                   client, cleared, warning>>

\* Variant: the dispatch thread is started before the request is answered.
do_POST_start_early(e) ==
    /\ handler[e] \in {"idle", "acked"}
    /\ handler' = [handler EXCEPT ![e] = "started"]
    /\ text' = [text EXCEPT ![e] = IF handler[e] = "idle" THEN "sit" ELSE @]
    /\ pc' = [pc EXCEPT ![Tv(e)] = "acquire"]
    /\ UNCHANGED <<now, bridge_breaker, processing_lock, history,
                   last_sensor_check, battery_warned, accepted, stage, grant,
                   s_now, messages, dispatched, llm_calls, faults, obs, second,
                   adding, exchanges, replies, delivered, status_query,
                   reflex_call, lev_call, combo_call, parse_call, network,
                   client, cleared, warning>>

\* /voice/push after the acknowledgment:
\* threading.Thread(target=process_voice).start()
do_POST_start(e) ==
    /\ handler[e] = "acked"
    /\ handler' = [handler EXCEPT ![e] = "started"]
    /\ pc' = [pc EXCEPT ![Tv(e)] = "acquire"]
    /\ UNCHANGED <<now, bridge_breaker, processing_lock, history,
                   last_sensor_check, battery_warned, text, accepted, stage,
                   grant, s_now, messages, dispatched, llm_calls, faults, obs,
                   second, adding, exchanges, replies, delivered, status_query,
                   reflex_call, lev_call, combo_call, parse_call, network,
                   client, cleared, warning>>

\* /conversation/clear
do_POST_clear ==
    /\ adding = "idle"
    /\ history' = <<>>
    /\ exchanges' = 0
    /\ cleared' = [done |-> TRUE,
                   before |-> {e \in Events : handler[e] \in {"acked", "started"}}]
    /\ UNCHANGED <<now, bridge_breaker, processing_lock, last_sensor_check,
                   battery_warned, handler, text, accepted, pc, stage, grant,
                   s_now, messages, dispatched, llm_calls, faults, obs, second,
                   adding, replies, delivered, status_query, reflex_call,
                   lev_call, combo_call, parse_call, network, client, warning>>

(***************************************************************************)
(* process_voice                                                           *)
(***************************************************************************)
\* Variant: the gate lets every arriving thread in.
acquire_unguarded(lock) == TRUE

\* _processing_lock.acquire(blocking=False): whether the lock is taken
acquire(lock) == lock = 0

\* _processing_lock.acquire(blocking=False) succeeded: the thread enters
\* _process_voice_inner, starts a check_sensors thread and classifies the text.
process_voice_enter(e) ==
    /\ pc[Tv(e)] = "acquire"
    /\ acquire(processing_lock)
    /\ processing_lock' = e
    /\ pc' = [pc EXCEPT ![Tv(e)] = FirstSite(text[e]), ![Ts(e)] = "s_check"]
    /\ stage' = [stage EXCEPT ![Tv(e)] = "attempt"]
    /\ UNCHANGED <<now, bridge_breaker, history, last_sensor_check,
                   battery_warned, handler, text, accepted, grant, s_now,
                   messages, dispatched, llm_calls, faults, obs, second,
                   adding, exchanges, replies, delivered, status_query,
                   reflex_call, lev_call, combo_call, parse_call, network,
                   client, cleared, warning>>

\* Variant: a thread that finds the gate held apologises over the bridge
\* instead of returning silently.
process_voice_busy_apology(e) ==
    /\ pc[Tv(e)] = "acquire"
    /\ ~acquire(processing_lock)
    /\ Goto(Tv(e), "emergency")
    /\ UNCHANGED <<now, bridge_breaker, processing_lock, history,
                   last_sensor_check, battery_warned, handler, text, accepted,
                   s_now, messages, dispatched, llm_calls, faults, obs, second,
                   adding, exchanges, replies, delivered, status_query,
                   reflex_call, lev_call, combo_call, parse_call, network,
                   client, cleared, warning>>

\* _processing_lock.acquire(blocking=False) failed: the event is dropped.
process_voice_busy(e) ==
    /\ pc[Tv(e)] = "acquire"
    /\ ~acquire(processing_lock)
    /\ pc' = [pc EXCEPT ![Tv(e)] = "dropped"]
    /\ text' = [text EXCEPT ![e] = ""]
    /\ UNCHANGED <<now, bridge_breaker, processing_lock, history,
                   last_sensor_check, battery_warned, handler, accepted, stage,
                   grant, s_now, messages, dispatched, llm_calls, faults, obs,
                   second, adding, exchanges, replies, delivered, status_query,
                   reflex_call, lev_call, combo_call, parse_call, network,
                   client, cleared, warning>>

\* Variant: the release stands at the end of the try block instead of in a
\* finally clause, so a dispatch that has raised ends without releasing.
process_voice_release_unless_raised(e) ==
    /\ pc[Tv(e)] = "release"
    /\ processing_lock' =
           IF replies[e] # <<>> /\ replies[e][Len(replies[e])] = "bad"
           THEN processing_lock
           ELSE 0
    /\ pc' = [pc EXCEPT ![Tv(e)] = "done"]
    /\ text' = [text EXCEPT ![e] = ""]
    /\ replies' = [replies EXCEPT ![e] = <<>>]
    /\ delivered' = [delivered EXCEPT ![e] = FALSE]
    /\ UNCHANGED <<now, bridge_breaker, history, last_sensor_check,
                   battery_warned, handler, accepted, stage, grant, s_now,
                   messages, dispatched, llm_calls, faults, obs, second,
                   adding, exchanges, status_query, reflex_call, lev_call,
                   combo_call, parse_call, network, client, cleared, warning>>

\* finally: _processing_lock.release()
process_voice_release(e) ==
    /\ pc[Tv(e)] = "release"
    /\ processing_lock' = 0
    /\ pc' = [pc EXCEPT ![Tv(e)] = "done"]
    /\ text' = [text EXCEPT ![e] = ""]
    /\ replies' = [replies EXCEPT ![e] = <<>>]
    /\ delivered' = [delivered EXCEPT ![e] = FALSE]
    /\ UNCHANGED <<now, bridge_breaker, history, last_sensor_check,
                   battery_warned, handler, accepted, stage, grant, s_now,
                   messages, dispatched, llm_calls, faults, obs, second,
                   adding, exchanges, status_query, reflex_call, lev_call,
                   combo_call, parse_call, network, client, cleared, warning>>

(***************************************************************************)
(* _parse_json_response                                                    *)
(*                                                                         *)
(* A reply is a sequence of lexical pieces: the braces "{" and "}", the    *)
(* object members "a" and "b" (each a complete `"key": value`), the number *)
(* "n", the fence of three backquotes, the word "json", the prose word "w"  *)
(* and the blank.  A nested object stands for a member whose value is an   *)
(* object.                                                                 *)
(***************************************************************************)
\* The fence of a Markdown code block, three backquotes
FENCE == "fence"
ObjectPieces == {"{", "}", "a", "b", " "}

\* The number of open braces after the first i pieces of s
depth(s, i) ==
    Cardinality({k \in 1..i : s[k] = "{"})
        - Cardinality({k \in 1..i : s[k] = "}"})

\* s is the text of one JSON object: braces around members and nested
\* objects, closed by its last piece and not before
IsObject(s) ==
    /\ Len(s) >= 2
    /\ s[1] = "{"
    /\ \A k \in 1..Len(s) : s[k] \in ObjectPieces
    /\ \A k \in 1..Len(s) - 1 : depth(s, k) > 0
    /\ depth(s, Len(s)) = 0

\* The pieces of s that are no blanks
NoBlanks(s) == SelectSeq(s, LAMBDA c : c # " ")

\* json.loads(s): the value, or JSONDecodeError
JSONDecodeError == [ok |-> FALSE]
json_loads(s) ==
    IF NoBlanks(s) = <<"n">> THEN [ok |-> TRUE, value |-> [type |-> "int"]]
    ELSE IF IsObject(strip(s))
    THEN [ok |-> TRUE, value |-> [type |-> "dict", object |-> NoBlanks(s)]]
    ELSE JSONDecodeError

\* text.find(c), text.rfind(c); 0 stands for -1
find(s, c) ==
    IF \E k \in 1..Len(s) : s[k] = c
    THEN CHOOSE k \in 1..Len(s) : s[k] = c /\ \A j \in 1..k - 1 : s[j] # c
    ELSE 0
rfind(s, c) ==
    IF \E k \in 1..Len(s) : s[k] = c
    THEN CHOOSE k \in 1..Len(s) :
             s[k] = c /\ \A j \in k + 1..Len(s) : s[j] # c
    ELSE 0

\* Where a fence followed by "json" first starts in s, 0 if nowhere
find_json_fence(s) ==
    IF \E k \in 1..Len(s) - 1 : s[k] = FENCE /\ s[k + 1] = "json"
    THEN CHOOSE k \in 1..Len(s) - 1 :
             /\ s[k] = FENCE /\ s[k + 1] = "json"
             /\ \A j \in 1..k - 1 : ~(s[j] = FENCE /\ s[j + 1] = "json")
    ELSE 0

\* cleaned.split(FENCE, 1)[0] if FENCE in cleaned
before_fence(s) ==
    IF find(s, FENCE) # 0 THEN SubSeq(s, 1, find(s, FENCE) - 1) ELSE s

\* Entferne Markdown-Code-Blocks
unfence(s) ==
    IF find_json_fence(s) # 0
    THEN before_fence(SubSeq(s, find_json_fence(s) + 2, Len(s)))
    ELSE IF find(s, FENCE) # 0
    THEN before_fence(SubSeq(s, find(s, FENCE) + 1, Len(s)))
    ELSE s

\* text.strip()[:200]
SPEAK_LIMIT == 200
raw_text(s) ==
    SubSeq(strip(s), 1,
           IF Len(strip(s)) < SPEAK_LIMIT THEN Len(strip(s)) ELSE SPEAK_LIMIT)

\* Fallback: Rohen Text als speak zurückgeben
speech_only(s) ==
    [via |-> "fallback", speak |-> raw_text(s), actions |-> <<>>,
     emotion |-> "neutral"]

\* What a successful json.loads makes _parse_json_response return
parsed(via, res) == [via |-> via, value |-> res.value]

\* Suche nach erstem { ... letztem }: text[start:end + 1], the empty text
\* when `start != -1 and end > start` fails
span(s) ==
    IF find(s, "{") # 0 /\ rfind(s, "}") > find(s, "{")
    THEN SubSeq(s, find(s, "{"), rfind(s, "}"))
    ELSE <<>>

\* _parse_json_response(text)
parse_json_response(s) ==
    IF json_loads(strip(s)).ok THEN parsed("direct", json_loads(strip(s)))
    ELSE IF json_loads(strip(unfence(s))).ok
    THEN parsed("fenced", json_loads(strip(unfence(s))))
    ELSE IF span(s) # <<>> /\ json_loads(span(s)).ok
    THEN parsed("span", json_loads(span(s)))
    ELSE speech_only(s)

\* The replies the parser is called with: up to MaxSegments of these segments
\* in a row
Segments ==
    {<<"w">>, <<" ">>, <<"n">>, <<"{", "a", "}">>, <<"{", "b", "}">>,
     <<"{", "a", "{", "b", "}", "}">>, <<"{">>, <<"}">>,
     <<FENCE, "json">>, <<FENCE>>}
MaxSegments == 4

RECURSIVE Replies(_)
Replies(n) ==
    IF n = 0 THEN {<<>>}
    ELSE LET shorter == Replies(n - 1)
         IN  shorter \cup {r \o seg : r \in shorter, seg \in Segments}

\* _parse_json_response is called with a reply and returns
parse_json_response_call ==
    /\ parse_call = NoParse
    /\ \E s \in Replies(MaxSegments) :
          parse_call' = [text |-> s, ret |-> parse_json_response(s)]
    /\ UNCHANGED <<now, bridge_breaker, processing_lock, history,
                   last_sensor_check, battery_warned, handler, text, accepted,
                   pc, stage, grant, s_now, messages, dispatched, llm_calls,
                   faults, obs, second, adding, exchanges, replies, delivered,
                   status_query, reflex_call, lev_call, combo_call, network,
                   client, cleared, warning>>

(***************************************************************************)
(* send_combo                                                              *)
(***************************************************************************)
\* Python values as send_combo receives them: None, a string, a list, a dict
PyNone == [type |-> "NoneType"]
Str(s) == [type |-> "str", value |-> s]
List(l) == [type |-> "list", len |-> Len(l), elems |-> l]
Dict(d) == [type |-> "dict", len |-> Cardinality(DOMAIN d), items |-> d]
EmptyDict == [type |-> "dict", len |-> 0]

\* The truth value Python gives a value in `if v`
truthy(v) ==
    CASE v.type = "NoneType" -> FALSE
      [] v.type = "str" -> v.value # ""
      [] OTHER -> v.len # 0

\* EMOTION_RGB
EMOTION_RGB ==
    [happy    |-> [r |-> 0,   g |-> 255, b |-> 0,   mode |-> "breath", bps |-> "1.5"],
     sad      |-> [r |-> 0,   g |-> 0,   b |-> 128, mode |-> "breath", bps |-> "0.3"],
     curious  |-> [r |-> 0,   g |-> 255, b |-> 255, mode |-> "breath", bps |-> "1.0"],
     excited  |-> [r |-> 255, g |-> 255, b |-> 0,   mode |-> "boom",   bps |-> "2.0"],
     alert    |-> [r |-> 255, g |-> 100, b |-> 0,   mode |-> "boom",   bps |-> "1.5"],
     sleepy   |-> [r |-> 0,   g |-> 0,   b |-> 80,  mode |-> "breath", bps |-> "0.3"],
     love     |-> [r |-> 255, g |-> 50,  b |-> 150, mode |-> "breath", bps |-> "1.0"],
     think    |-> [r |-> 128, g |-> 0,   b |-> 255, mode |-> "breath", bps |-> "0.8"],
     neutral  |-> [r |-> 128, g |-> 0,   b |-> 255, mode |-> "breath", bps |-> "0.8"],
     proud    |-> [r |-> 255, g |-> 200, b |-> 0,   mode |-> "breath", bps |-> "1.2"],
     confused |-> [r |-> 255, g |-> 128, b |-> 0,   mode |-> "breath", bps |-> "0.6"],
     scared   |-> [r |-> 255, g |-> 0,   b |-> 0,   mode |-> "boom",   bps |-> "2.5"]]

\* Variant: the table entry of a known mood is sent even when the caller has
\* given a light setting of its own.
combo_rgb_table_first(emotion, rgb) ==
    IF truthy(emotion) /\ emotion.type = "str"
           /\ emotion.value \in DOMAIN EMOTION_RGB
    THEN Dict(EMOTION_RGB[emotion.value])
    ELSE IF truthy(rgb) /\ rgb.type = "dict" THEN rgb
    ELSE Dict(EMOTION_RGB["neutral"])

\* combo["rgb"]: `if rgb and isinstance(rgb, dict)` ... `elif emotion and
\* emotion in EMOTION_RGB` ... `else`
combo_rgb(emotion, rgb) ==
    IF truthy(rgb) /\ rgb.type = "dict" THEN rgb
    ELSE IF truthy(emotion) /\ emotion.type = "str"
                /\ emotion.value \in DOMAIN EMOTION_RGB
    THEN Dict(EMOTION_RGB[emotion.value])
    ELSE Dict(EMOTION_RGB["neutral"])

\* The combo send_combo builds: the keys it sets and their values
combo_of(actions, speak, emotion, rgb) ==
    LET keys == (IF truthy(actions) THEN {"actions"} ELSE {})
                \cup (IF truthy(speak) THEN {"speak"} ELSE {})
                \cup {"rgb"}
    IN  [k \in keys |-> CASE k = "actions" -> actions
                          [] k = "speak" -> speak
                          [] OTHER -> combo_rgb(emotion, rgb)]

\* The arguments send_combo is called with: moods of the table, a mood that
\* is not in it, the empty string and None; no light setting, an empty one,
\* one that is no dict, and a dict
ComboEmotions ==
    {Str(e) : e \in DOMAIN EMOTION_RGB} \cup {Str("angry"), Str(""), PyNone}
ComboLights ==
    {PyNone, EmptyDict, Str("red"), List(<<255, 0, 0>>),
     Dict([r |-> 10, g |-> 20, b |-> 30]),
     Dict([r |-> 0, g |-> 255, b |-> 0, mode |-> "boom", bps |-> "3.0"])}
ComboActions == {PyNone, List(<<>>), List(<<"sit">>)}
ComboSpeech == {PyNone, Str(""), Str("Hallo")}

\* send_combo is called and hands its combo to bridge_post("/combo", combo),
\* or returns "empty combo" when it has built none
send_combo_call ==
    /\ combo_call = NoCombo
    /\ \E actions \in ComboActions, speak \in ComboSpeech,
          emotion \in ComboEmotions, rgb \in ComboLights :
          LET combo == combo_of(actions, speak, emotion, rgb)
          IN  combo_call' =
                  [at |-> IF DOMAIN combo = {} THEN "empty combo"
                          ELSE "bridge_post",
                   emotion |-> emotion, rgb |-> rgb, combo |-> combo]
    /\ UNCHANGED <<now, bridge_breaker, processing_lock, history,
                   last_sensor_check, battery_warned, handler, text, accepted,
                   pc, stage, grant, s_now, messages, dispatched, llm_calls,
                   faults, obs, second, adding, exchanges, replies, delivered,
                   status_query, reflex_call, lev_call, parse_call, network,
                   client, cleared, warning>>

(***************************************************************************)
(* _levenshtein                                                            *)
(***************************************************************************)
\* _levenshtein is called with two strings and returns
levenshtein_call ==
    /\ lev_call = NoDistance
    /\ \E s1 \in Strings(LevMaxLen), s2 \in Strings(LevMaxLen) :
          lev_call' = [s1 |-> s1, s2 |-> s2, ret |-> levenshtein(s1, s2)]
    /\ UNCHANGED <<now, bridge_breaker, processing_lock, history,
                   last_sensor_check, battery_warned, handler, text, accepted,
                   pc, stage, grant, s_now, messages, dispatched, llm_calls,
                   faults, obs, second, adding, exchanges, replies, delivered,
                   status_query, reflex_call, combo_call, parse_call, network,
                   client, cleared, warning>>

(***************************************************************************)
(* match_reflex                                                            *)
(***************************************************************************)
\* match_reflex is called with a text and returns
match_reflex_call ==
    /\ reflex_call = NoCall
    /\ \E t \in ReflexInputs :
          reflex_call' = [text |-> t, ret |-> MatchReflex(t)]
    /\ UNCHANGED <<now, bridge_breaker, processing_lock, history,
                   last_sensor_check, battery_warned, handler, text, accepted,
                   pc, stage, grant, s_now, messages, dispatched, llm_calls,
                   faults, obs, second, adding, exchanges, replies, delivered,
                   status_query, lev_call, combo_call, parse_call, network,
                   client, cleared, warning>>

(***************************************************************************)
(* VoiceRelayHandler.do_GET                                                *)
(***************************************************************************)
\* ThreadedHTTPServer hands a GET /status or GET /health request to a thread
\* of its own.
do_GET_arrive ==
    /\ status_query = NoQuery
    /\ \E path \in {"/status", "/health"} :
          status_query' = [path |-> path, at |-> "do_GET"]
    /\ UNCHANGED <<now, bridge_breaker, processing_lock, history,
                   last_sensor_check, battery_warned, handler, text, accepted,
                   pc, stage, grant, s_now, messages, dispatched, llm_calls,
                   faults, obs, second, adding, exchanges, replies, delivered,
                   reflex_call, lev_call, combo_call, parse_call, network,
                   client, cleared, warning>>

\* What the handler is waiting for: conversation.get_messages() takes the
\* store's lock; /health touches no shared state.
do_GET_may_proceed(path) == path = "/status" => adding = "idle"

\* Variant: the handler answers only while no dispatch holds the gate.
do_GET_reply_gated ==
    /\ status_query.at = "do_GET"
    /\ do_GET_may_proceed(status_query.path)
    /\ acquire(processing_lock)
    /\ status_query' =
          [path |-> status_query.path,
           at |-> "served",
           reply |-> [ok |-> TRUE],
           behind |-> "none"]
    /\ UNCHANGED <<now, bridge_breaker, processing_lock, history,
                   last_sensor_check, battery_warned, handler, text, accepted,
                   pc, stage, grant, s_now, messages, dispatched, llm_calls,
                   faults, obs, second, adding, exchanges, replies, delivered,
                   reflex_call, lev_call, combo_call, parse_call, network,
                   client, cleared, warning>>

\* The handler builds and sends its answer: for /status the breaker's state
\* and address (unlocked reads) and len(conversation.get_messages()) // 2;
\* for /health {"ok": True}.
do_GET_reply ==
    /\ status_query.at = "do_GET"
    /\ do_GET_may_proceed(status_query.path)
    /\ status_query' =
          [path |-> status_query.path,
           at |-> "served",
           reply |-> IF status_query.path = "/status"
                     THEN [ok |-> TRUE,
                           bridge |->
                               [url |-> bridge_breaker.active_url,
                                state |-> bridge_breaker.state,
                                ok |-> bridge_breaker.state = CLOSED],
                           conversation_history |-> Len(history) \div 2]
                     ELSE [ok |-> TRUE],
           behind |-> IF processing_lock = 0 THEN "none"
                      ELSE pc[Tv(processing_lock)]]
    /\ UNCHANGED <<now, bridge_breaker, processing_lock, history,
                   last_sensor_check, battery_warned, handler, text, accepted,
                   pc, stage, grant, s_now, messages, dispatched, llm_calls,
                   faults, obs, second, adding, exchanges, replies, delivered,
                   reflex_call, lev_call, combo_call, parse_call, network,
                   client, cleared, warning>>

\* `warning` once the post of the low-battery warning of sensor thread t has
\* come to its end `res`
Warning_post(w, t, res) ==
    IF pc[t] = "s_warn" THEN [w EXCEPT ![t[2]] = res] ELSE w

(***************************************************************************)
(* bridge_get / bridge_post                                                *)
(***************************************************************************)
\* if not bridge_breaker.can_attempt(): return {"error": "circuit_open"}
\* else the request goes out (urlopen).  get_url() reads active_url alone, which
\* can_attempt neither reads nor writes, so the two are one step.
bridge_can_attempt(t) ==
    /\ stage[t] = "attempt"
    /\ LET r == can_attempt(bridge_breaker, now)
           g == IF ~r.ret THEN "rejected"
                ELSE IF bridge_breaker.state = CLOSED THEN "closed"
                ELSE IF bridge_breaker.state = OPEN THEN "trial"
                ELSE "half_open"
       IN /\ bridge_breaker' = r.b
          /\ obs' = Observe("can_attempt", g, now)
          /\ IF r.ret
             THEN /\ stage' = [stage EXCEPT ![t] = "net"]
                  /\ grant' = [grant EXCEPT ![t] = g]
                  /\ UNCHANGED pc
             ELSE Return(t, "circuit_open")
    /\ warning' = IF can_attempt(bridge_breaker, now).ret THEN warning
                  ELSE Warning_post(warning, t, "rejected")
    /\ UNCHANGED <<now, processing_lock, history, last_sensor_check,
                   battery_warned, handler, text, accepted, s_now, messages,
                   dispatched, llm_calls, faults, second, adding, exchanges,
                   replies, delivered, status_query, reflex_call, lev_call,
                   combo_call, parse_call, network, client, cleared>>

\* `dispatched` once a directive of voice thread t reached the network
Dispatched(d, t) ==
    IF t[1] = "voice" /\ (d = <<>> \/ d[Len(d)] # t[2]) THEN Append(d, t[2]) ELSE d

\* `delivered` once the bridge has answered a request of thread t
Delivered(d, t) ==
    IF t[1] = "voice" /\ pc[t] \in PostSites THEN [d EXCEPT ![t[2]] = TRUE] ELSE d

\* urlopen returns or raises; the outcome is recorded in the breaker
bridge_net(t) ==
    /\ stage[t] = "net"
    /\ dispatched' = IF pc[t] \in PostSites THEN Dispatched(dispatched, t)
                     ELSE dispatched
    /\ \E o \in NetOutcomes :
          /\ o # "ok" => faults # 0
          \* bridge_post's callers ignore what it returns
          /\ o = "nondict" => pc[t] \in GetSites
          /\ faults' = IF o = "ok" \/ faults = NoLimit THEN faults ELSE faults - 1
          /\ warning' = Warning_post(warning, t,
                                      IF o = "fail" THEN "failed" ELSE "sent")
          /\ IF o = "fail"
             THEN /\ bridge_breaker' = record_failure(bridge_breaker, now)
                  /\ obs' = Observe("record_failure", grant[t], now)
                  /\ second' = [second EXCEPT ![t] =
                                    bridge_breaker.failures + 1 = FAILOVER_AT]
                  /\ stage' = [stage EXCEPT ![t] = "chk"]
                  /\ UNCHANGED <<pc, grant, delivered>>
             ELSE /\ bridge_breaker' = record_success(bridge_breaker)
                  /\ obs' = Observe("record_success", grant[t], now)
                  /\ Return(t, o)
                  /\ delivered' = Delivered(delivered, t)
                  /\ UNCHANGED second
    /\ UNCHANGED <<now, processing_lock, history, last_sensor_check,
                   battery_warned, handler, text, accepted, s_now, messages,
                   llm_calls, adding, exchanges, replies, status_query,
                   reflex_call, lev_call, combo_call, parse_call, network,
                   client, cleared>>

\* if bridge_breaker.failures == 2: (an unlocked read)
bridge_chk(t) ==
    /\ stage[t] = "chk"
    /\ IF bridge_breaker.failures = FAILOVER_AT
       THEN /\ stage' = [stage EXCEPT ![t] = "fo"]
            /\ UNCHANGED <<pc, grant, second>>
       ELSE /\ Return(t, "error")
            /\ second' = [second EXCEPT ![t] = FALSE]
    /\ UNCHANGED <<now, bridge_breaker, processing_lock, history,
                   last_sensor_check, battery_warned, handler, text, accepted,
                   s_now, messages, dispatched, llm_calls, faults, obs, adding,
                   exchanges, replies, delivered, status_query, reflex_call,
                   lev_call, combo_call, parse_call, network, client, cleared,
                   warning>>

\* bridge_breaker.try_failover(); return {"error": str(e)}
bridge_fo(t) ==
    /\ stage[t] = "fo"
    /\ bridge_breaker' = try_failover(bridge_breaker)
    /\ obs' = Observe("try_failover", "none", now)
    /\ Return(t, "error")
    /\ second' = [second EXCEPT ![t] = FALSE]
    /\ UNCHANGED <<now, processing_lock, history, last_sensor_check,
                   battery_warned, handler, text, accepted, s_now, messages,
                   dispatched, llm_calls, faults, adding, exchanges, replies,
                   delivered, status_query, reflex_call, lev_call, combo_call,
                   parse_call, network, client, cleared, warning>>

(***************************************************************************)
(* bridge_get called again and again while the network changes             *)
(*                                                                         *)
(* The failure counter and the clock grow without bound.  The code tests   *)
(* the counter only against threshold and against 2, and the clock only    *)
(* through the time since the last failure against retry_interval, so the  *)
(* counter is kept at FailuresCap once it has passed it, and once the      *)
(* clock has reached MaxTime its origin is moved on instead of the clock.  *)
(***************************************************************************)
FailuresCap == threshold + 1

\* The breaker with its counter kept at FailuresCap
Capped(b) ==
    [b EXCEPT !.failures = IF @ > FailuresCap THEN FailuresCap ELSE @]

\* An endpoint goes down or comes up
network_change ==
    /\ ~network.settled
    /\ \E up \in SUBSET {BRIDGE_URL, BRIDGE_URL_TS} :
          /\ up # network.up
          /\ network' = [network EXCEPT !.up = up]
    /\ UNCHANGED <<now, bridge_breaker, processing_lock, history,
                   last_sensor_check, battery_warned, handler, text, accepted,
                   pc, stage, grant, s_now, messages, dispatched, llm_calls,
                   faults, obs, second, adding, exchanges, replies, delivered,
                   status_query, reflex_call, lev_call, combo_call, parse_call,
                   client, cleared, warning>>

\* From now on the endpoints that are up stay up, those that are down stay
\* down, and at least one is up
network_settle ==
    /\ ~network.settled
    /\ network.up # {}
    /\ network' = [network EXCEPT !.settled = TRUE, !.served = FALSE]
    /\ UNCHANGED <<now, bridge_breaker, processing_lock, history,
                   last_sensor_check, battery_warned, handler, text, accepted,
                   pc, stage, grant, s_now, messages, dispatched, llm_calls,
                   faults, obs, second, adding, exchanges, replies, delivered,
                   status_query, reflex_call, lev_call, combo_call, parse_call,
                   client, cleared, warning>>

\* Time passes
clock_advance ==
    /\ IF now + TickLen <= MaxTime
       THEN /\ now' = now + TickLen
            /\ UNCHANGED bridge_breaker
       ELSE /\ bridge_breaker' =
                   [bridge_breaker EXCEPT !.last_failure_time =
                        IF @ > TickLen THEN @ - TickLen ELSE 0]
            /\ UNCHANGED now
    /\ UNCHANGED <<processing_lock, history, last_sensor_check, battery_warned,
                   handler, text, accepted, pc, stage, grant, s_now, messages,
                   dispatched, llm_calls, faults, obs, second, adding,
                   exchanges, replies, delivered, status_query, reflex_call,
                   lev_call, combo_call, parse_call, network, client, cleared,
                   warning>>

\* if not bridge_breaker.can_attempt(): return {"error": "circuit_open"};
\* url = f"{bridge_breaker.get_url()}{path}"
client_can_attempt ==
    /\ client.at = "idle"
    /\ LET r == can_attempt(bridge_breaker, now)
       IN  /\ bridge_breaker' = r.b
           /\ client' = IF r.ret
                        THEN [at |-> "urlopen", url |-> get_url(bridge_breaker)]
                        ELSE client
    /\ UNCHANGED <<now, processing_lock, history, last_sensor_check,
                   battery_warned, handler, text, accepted, pc, stage, grant,
                   s_now, messages, dispatched, llm_calls, faults, obs, second,
                   adding, exchanges, replies, delivered, status_query,
                   reflex_call, lev_call, combo_call, parse_call, network,
                   cleared, warning>>

\* urlopen(url) answers when the endpoint is up: record_success(), return
\* result; else it raises: record_failure()
client_urlopen ==
    /\ client.at = "urlopen"
    /\ IF client.url \in network.up
       THEN /\ bridge_breaker' = record_success(bridge_breaker)
            /\ client' = [client EXCEPT !.at = "idle"]
            /\ network' = [network EXCEPT !.served = network.settled]
       ELSE /\ bridge_breaker' = Capped(record_failure(bridge_breaker, now))
            /\ client' = [client EXCEPT !.at = "check"]
            /\ UNCHANGED network
    /\ UNCHANGED <<now, processing_lock, history, last_sensor_check,
                   battery_warned, handler, text, accepted, pc, stage, grant,
                   s_now, messages, dispatched, llm_calls, faults, obs, second,
                   adding, exchanges, replies, delivered, status_query,
                   reflex_call, lev_call, combo_call, parse_call, cleared,
                   warning>>

\* if bridge_breaker.failures == 2: bridge_breaker.try_failover();
\* return {"error": str(e)}
client_failover ==
    /\ client.at = "check"
    /\ bridge_breaker' = IF bridge_breaker.failures = FAILOVER_AT
                         THEN try_failover(bridge_breaker)
                         ELSE bridge_breaker
    /\ client' = [client EXCEPT !.at = "idle"]
    /\ UNCHANGED <<now, processing_lock, history, last_sensor_check,
                   battery_warned, handler, text, accepted, pc, stage, grant,
                   s_now, messages, dispatched, llm_calls, faults, obs, second,
                   adding, exchanges, replies, delivered, status_query,
                   reflex_call, lev_call, combo_call, parse_call, network,
                   cleared, warning>>

(***************************************************************************)
(* _process_voice_inner: the language-model calls and the history          *)
(***************************************************************************)
\* call_agent(text) returns
call_agent(e) ==
    /\ pc[Tv(e)] = "t3_llm"
    /\ \E o \in LlmOutcomes :
          /\ Goto(Tv(e), AfterLlm("t3_llm", o))
          /\ replies' = [replies EXCEPT ![e] = Append(@, o)]
    /\ llm_calls' = [llm_calls EXCEPT ![e] = @ + 1]
    /\ UNCHANGED <<now, bridge_breaker, processing_lock, history,
                   last_sensor_check, battery_warned, handler, text, accepted,
                   s_now, messages, dispatched, faults, obs, second, adding,
                   exchanges, delivered, status_query, reflex_call, lev_call,
                   combo_call, parse_call, network, client, cleared, warning>>

\* Variant: the store's lock is kept while the request is under way.
call_clawdbot_chat_send_locked(e) ==
    /\ pc[Tv(e)] = "t2_chat"
    /\ adding = "idle"
    /\ messages' = [messages EXCEPT ![e] = history]
    /\ adding' = "reader"
    /\ pc' = [pc EXCEPT ![Tv(e)] = "t2_llm"]
    /\ UNCHANGED <<now, bridge_breaker, processing_lock, history,
                   last_sensor_check, battery_warned, handler, text, accepted,
                   stage, grant, s_now, dispatched, llm_calls, faults, obs,
                   second, exchanges, replies, delivered, status_query,
                   reflex_call, lev_call, combo_call, parse_call, network,
                   client, cleared, warning>>

\* call_clawdbot_chat: messages.extend(conversation.get_messages()), request sent
call_clawdbot_chat_send(e) ==
    /\ pc[Tv(e)] = "t2_chat"
    /\ adding = "idle"
    /\ messages' = [messages EXCEPT ![e] = history]
    /\ pc' = [pc EXCEPT ![Tv(e)] = "t2_llm"]
    /\ UNCHANGED <<now, bridge_breaker, processing_lock, history,
                   last_sensor_check, battery_warned, handler, text, accepted,
                   stage, grant, s_now, dispatched, llm_calls, faults, obs,
                   second, adding, exchanges, replies, delivered, status_query,
                   reflex_call, lev_call, combo_call, parse_call, network,
                   client, cleared, warning>>

\* call_clawdbot_chat returns
call_clawdbot_chat(e) ==
    /\ pc[Tv(e)] = "t2_llm"
    /\ \E o \in LlmOutcomes :
          /\ Goto(Tv(e), AfterLlm("t2_llm", o))
          /\ replies' = [replies EXCEPT ![e] = Append(@, o)]
    /\ messages' = [messages EXCEPT ![e] = <<>>]
    /\ llm_calls' = [llm_calls EXCEPT ![e] = @ + 1]
    /\ UNCHANGED <<now, bridge_breaker, processing_lock, history,
                   last_sensor_check, battery_warned, handler, text, accepted,
                   s_now, dispatched, faults, obs, second, adding, exchanges,
                   delivered, status_query, reflex_call, lev_call, combo_call,
                   parse_call, network, client, cleared, warning>>

\* conversation.add_exchange(text, speak), then return
conversation_add_exchange(e) ==
    /\ pc[Tv(e)] \in {"t3_add", "t2_add"}
    /\ adding = "idle"
    /\ history' = add_exchange(history, e, e)
    /\ exchanges' = exchanges + 1
    /\ pc' = [pc EXCEPT ![Tv(e)] = "release"]
    /\ UNCHANGED <<now, bridge_breaker, processing_lock, last_sensor_check,
                   battery_warned, handler, text, accepted, stage, grant,
                   s_now, messages, dispatched, llm_calls, faults, obs, second,
                   adding, replies, delivered, status_query, reflex_call,
                   lev_call, combo_call, parse_call, network, client, cleared,
                   warning>>

\* conversation.add_exchange(text, speak) step by step, the dispatch thread
\* holding the store's lock from the first append to the end of the loop:
\* self._history.append({"role": "user", ...})
conversation_add_user(e) ==
    /\ pc[Tv(e)] \in {"t3_add", "t2_add"}
    /\ adding = "idle"
    /\ history' = Append(history, [role |-> "user", content |-> e])
    /\ adding' = "user"
    /\ UNCHANGED <<now, bridge_breaker, processing_lock, last_sensor_check,
                   battery_warned, handler, text, accepted, pc, stage, grant,
                   s_now, messages, dispatched, llm_calls, faults, obs, second,
                   exchanges, replies, delivered, status_query, reflex_call,
                   lev_call, combo_call, parse_call, network, client, cleared,
                   warning>>

\* self._history.append({"role": "assistant", ...})
conversation_add_assistant(e) ==
    /\ pc[Tv(e)] \in {"t3_add", "t2_add"}
    /\ adding = "user"
    /\ history' = Append(history, [role |-> "assistant", content |-> e])
    /\ adding' = "assistant"
    /\ UNCHANGED <<now, bridge_breaker, processing_lock, last_sensor_check,
                   battery_warned, handler, text, accepted, pc, stage, grant,
                   s_now, messages, dispatched, llm_calls, faults, obs, second,
                   exchanges, replies, delivered, status_query, reflex_call,
                   lev_call, combo_call, parse_call, network, client, cleared,
                   warning>>

\* the while loop; the lock is released and add_exchange returns
conversation_add_evict(e) ==
    /\ pc[Tv(e)] \in {"t3_add", "t2_add"}
    /\ adding = "assistant"
    /\ history' = Evict(history, MAX_HISTORY * 2)
    /\ adding' = "idle"
    /\ exchanges' = exchanges + 1
    /\ pc' = [pc EXCEPT ![Tv(e)] = "release"]
    /\ UNCHANGED <<now, bridge_breaker, processing_lock, last_sensor_check,
                   battery_warned, handler, text, accepted, stage, grant,
                   s_now, messages, dispatched, llm_calls, faults, obs, second,
                   replies, delivered, status_query, reflex_call, lev_call,
                   combo_call, parse_call, network, client, cleared, warning>>

(***************************************************************************)
(* check_sensors                                                           *)
(***************************************************************************)
\* now = time.time(); if now - _last_sensor_check < SENSOR_CHECK_INTERVAL: return
check_sensors_interval(e) ==
    /\ pc[Ts(e)] = "s_check"
    /\ IF now - last_sensor_check < SENSOR_CHECK_INTERVAL
       THEN /\ pc' = [pc EXCEPT ![Ts(e)] = "done"]
            /\ UNCHANGED s_now
       ELSE /\ pc' = [pc EXCEPT ![Ts(e)] = "s_set"]
            /\ s_now' = [s_now EXCEPT ![e] = now]
    /\ UNCHANGED <<now, bridge_breaker, processing_lock, history,
                   last_sensor_check, battery_warned, handler, text, accepted,
                   stage, grant, messages, dispatched, llm_calls, faults, obs,
                   second, adding, exchanges, replies, delivered, status_query,
                   reflex_call, lev_call, combo_call, parse_call, network,
                   client, cleared, warning>>

\* _last_sensor_check = now; status = bridge_get("/status")
check_sensors_stamp(e) ==
    /\ pc[Ts(e)] = "s_set"
    /\ last_sensor_check' = s_now[e]
    /\ s_now' = [s_now EXCEPT ![e] = 0]
    /\ Goto(Ts(e), "s_status")
    /\ UNCHANGED <<now, bridge_breaker, processing_lock, history,
                   battery_warned, handler, text, accepted, messages,
                   dispatched, llm_calls, faults, obs, second, adding,
                   exchanges, replies, delivered, status_query, reflex_call,
                   lev_call, combo_call, parse_call, network, client, cleared,
                   warning>>

\* batt = sensors.get("battery_v", 0), the reading the status call returned
\* if batt > 0 and batt < 6.8 and not _battery_warned: send_combo(...)
\* elif batt >= 7.0: _battery_warned = False
check_sensors_decide(e) ==
    /\ pc[Ts(e)] = "s_decide"
    /\ \E batt \in BattReadings :
          IF batt > 0 /\ batt < BATT_LOW /\ ~battery_warned
          THEN /\ Goto(Ts(e), "s_warn")
               /\ UNCHANGED battery_warned
          ELSE /\ Goto(Ts(e), "done")
               /\ battery_warned' = IF batt >= BATT_HIGH THEN FALSE
                                    ELSE battery_warned
    /\ UNCHANGED <<now, bridge_breaker, processing_lock, history,
                   last_sensor_check, handler, text, accepted, s_now, messages,
                   dispatched, llm_calls, faults, obs, second, adding,
                   exchanges, replies, delivered, status_query, reflex_call,
                   lev_call, combo_call, parse_call, network, client, cleared,
                   warning>>

\* _battery_warned = True, after send_combo returned
check_sensors_mark(e) ==
    /\ pc[Ts(e)] = "s_mark"
    /\ battery_warned' = TRUE
    /\ Goto(Ts(e), "done")
    /\ warning' = [warning EXCEPT ![e] = "none"]
    /\ UNCHANGED <<now, bridge_breaker, processing_lock, history,
                   last_sensor_check, handler, text, accepted, s_now, messages,
                   dispatched, llm_calls, faults, obs, second, adding,
                   exchanges, replies, delivered, status_query, reflex_call,
                   lev_call, combo_call, parse_call, network, client, cleared>>

(***************************************************************************)
(* main._test_bridge                                                       *)
(***************************************************************************)
\* bridge_breaker.try_failover() after the first status call failed
test_bridge_failover ==
    /\ pc[Tp] = "p_failover"
    /\ bridge_breaker' = try_failover(bridge_breaker)
    /\ obs' = Observe("try_failover", "none", now)
    /\ Goto(Tp, "p_get2")
    /\ UNCHANGED <<now, processing_lock, history, last_sensor_check,
                   battery_warned, handler, text, accepted, s_now, messages,
                   dispatched, llm_calls, faults, second, adding, exchanges,
                   replies, delivered, status_query, reflex_call, lev_call,
                   combo_call, parse_call, network, client, cleared, warning>>

(***************************************************************************)
(* ConversationState under concurrent callers: add_exchange step by step   *)
(* inside its `with self._lock:` block, against get_messages and clear.    *)
(***************************************************************************)
\* with self._lock: self._history.append({"role": "user", ...})
store_add_user ==
    /\ adding = "idle"
    /\ exchanges < MaxExchanges
    /\ history' = Append(history, [role |-> "user", content |-> exchanges + 1])
    /\ adding' = "user"
    /\ UNCHANGED <<now, bridge_breaker, processing_lock, last_sensor_check,
                   battery_warned, handler, text, accepted, pc, stage, grant,
                   s_now, messages, dispatched, llm_calls, faults, obs, second,
                   exchanges, replies, delivered, status_query, reflex_call,
                   lev_call, combo_call, parse_call, network, client, cleared,
                   warning>>

\* self._history.append({"role": "assistant", ...})
store_add_assistant ==
    /\ adding = "user"
    /\ history' = Append(history,
                         [role |-> "assistant", content |-> exchanges + 1])
    /\ adding' = "assistant"
    /\ UNCHANGED <<now, bridge_breaker, processing_lock, last_sensor_check,
                   battery_warned, handler, text, accepted, pc, stage, grant,
                   s_now, messages, dispatched, llm_calls, faults, obs, second,
                   exchanges, replies, delivered, status_query, reflex_call,
                   lev_call, combo_call, parse_call, network, client, cleared,
                   warning>>

\* the while loop, and the lock is released
store_add_evict ==
    /\ adding = "assistant"
    /\ history' = Evict(history, MAX_HISTORY * 2)
    /\ adding' = "idle"
    /\ exchanges' = exchanges + 1
    /\ UNCHANGED <<now, bridge_breaker, processing_lock, last_sensor_check,
                   battery_warned, handler, text, accepted, pc, stage, grant,
                   s_now, messages, dispatched, llm_calls, faults, obs, second,
                   replies, delivered, status_query, reflex_call, lev_call,
                   combo_call, parse_call, network, client, cleared, warning>>

\* Variant: get_messages copies the list without taking the lock.
store_get_messages_unlocked(e) ==
    /\ messages' = [messages EXCEPT ![e] = history]
    /\ UNCHANGED <<now, bridge_breaker, processing_lock, history,
                   last_sensor_check, battery_warned, handler, text, accepted,
                   pc, stage, grant, s_now, dispatched, llm_calls, faults, obs,
                   second, adding, exchanges, replies, delivered, status_query,
                   reflex_call, lev_call, combo_call, parse_call, network,
                   client, cleared, warning>>

\* get_messages: with self._lock: return list(self._history)
store_get_messages(e) ==
    /\ adding = "idle"
    /\ messages' = [messages EXCEPT ![e] = history]
    /\ UNCHANGED <<now, bridge_breaker, processing_lock, history,
                   last_sensor_check, battery_warned, handler, text, accepted,
                   pc, stage, grant, s_now, dispatched, llm_calls, faults, obs,
                   second, adding, exchanges, replies, delivered, status_query,
                   reflex_call, lev_call, combo_call, parse_call, network,
                   client, cleared, warning>>

(***************************************************************************)
(* Specification                                                           *)
(***************************************************************************)
\* VoiceRelayHandler.do_POST /voice/push and process_voice up to the gate
Ingress ==
    \/ \E e \in Events : do_POST_push(e)
    \/ \E e \in Events : do_POST_start(e)
    \/ \E e \in Events : process_voice_enter(e)

\* _process_voice_inner while the bridge answers, and check_sensors' interval test
Processing ==
    \/ Tick
    \/ \E e \in Events : process_voice_release(e)
    \/ \E t \in Threads : bridge_can_attempt(t)
    \/ \E t \in Threads : bridge_net(t)
    \/ \E e \in Events : call_agent(e)
    \/ \E e \in Events : call_clawdbot_chat_send(e)
    \/ \E e \in Events : call_clawdbot_chat(e)
    \/ \E e \in Events : conversation_add_exchange(e)
    \/ \E e \in Events : check_sensors_interval(e)

\* check_sensors once the interval has passed
Sensors ==
    \/ \E e \in Events : check_sensors_stamp(e)
    \/ \E e \in Events : check_sensors_decide(e)
    \/ \E e \in Events : check_sensors_mark(e)

\* bridge_get / bridge_post after a failed request, and the probe's own failover
Failure ==
    \/ \E t \in Threads : bridge_chk(t)
    \/ \E t \in Threads : bridge_fo(t)
    \/ test_bridge_failover

\* Several pushes contend for the gate.  The probe has returned, the bridge
\* answers every request, and check_sensors ran at start-up, so that the
\* check_sensors threads of these pushes return at the interval test.
InitGate == InitWith(GateEvents, FALSE, 0, BootTime)
NextGate == Ingress \/ Processing \/ \E e \in Events : process_voice_busy(e)
SpecGate == InitGate /\ [][NextGate]_vars

\* One dispatch thread, its check_sensors thread and the probe share the breaker;
\* the bridge may fail any request.
InitBreaker == InitWith(BreakerEvents, TRUE, NoLimit, 0)
NextBreaker == Ingress \/ Processing \/ Sensors \/ Failure
SpecBreaker == InitBreaker /\ [][NextBreaker]_vars

\* The conversation store alone: one caller of add_exchange at a time (the
\* gate admits one dispatch), readers and /conversation/clear at any time.
InitHistory == InitWith(0, FALSE, 0, BootTime)
NextHistory ==
    \/ store_add_user
    \/ store_add_assistant
    \/ store_add_evict
    \/ \E e \in Events : store_get_messages(e)
    \/ do_POST_clear
SpecHistory == InitHistory /\ [][NextHistory]_vars

\* One dispatch and the probe share the breaker; the bridge may fail any
\* request, and check_sensors ran at start-up.
InitDispatch == InitWith(BreakerEvents, TRUE, NoLimit, BootTime)
NextDispatch == Ingress \/ Processing \/ Failure
SpecDispatch == InitDispatch /\ [][NextDispatch]_vars

\* Two dispatches, one after the other, each with its check_sensors thread;
\* the probe has returned, the bridge answers every request, and check_sensors
\* has not run yet.
InitSensors == InitWith(GateEvents, FALSE, 0, 0)
NextSensors ==
    Ingress \/ Processing \/ Sensors \/ \E e \in Events : process_voice_busy(e)
SpecSensors == InitSensors /\ [][NextSensors]_vars

\* The relay left to itself: the upstream caller may push one utterance or
\* none at all, while every thread of the relay that can take a step
\* eventually takes one.  The probe has returned, the bridge answers every
\* request, and check_sensors has not run yet.
InitPeriodic == InitWith(BreakerEvents, FALSE, 0, 0)
RelaySteps ==
    \/ \E e \in Events : do_POST_start(e)
    \/ \E e \in Events : process_voice_enter(e)
    \/ Processing
    \/ Sensors
NextPeriodic == (\E e \in Events : do_POST_push(e)) \/ RelaySteps
SpecPeriodic == InitPeriodic /\ [][NextPeriodic]_vars /\ WF_vars(RelaySteps)

\* SpecGate with a status or health query arriving at any moment.
InitStatus == InitWith(GateEvents, FALSE, 0, BootTime)
NextStatus == NextGate \/ do_GET_arrive \/ do_GET_reply
SpecStatus == InitStatus /\ [][NextStatus]_vars

\* One dispatch whose add_exchange is taken step by step under the store's
\* lock, the probe, and a status query; the bridge answers every request.
InitLocks == InitWith(BreakerEvents, TRUE, 0, BootTime)
NextLocks ==
    \/ Ingress
    \/ Processing
    \/ \E e \in Events : conversation_add_user(e)
    \/ \E e \in Events : conversation_add_assistant(e)
    \/ \E e \in Events : conversation_add_evict(e)
    \/ do_GET_arrive
    \/ do_GET_reply
SpecLocks == InitLocks /\ [][NextLocks]_vars

\* match_reflex alone, called once with any of the inputs.
InitReflex == InitWith(0, FALSE, 0, BootTime)
NextReflex == match_reflex_call
SpecReflex == InitReflex /\ [][NextReflex]_vars

\* _levenshtein alone, called once with any two strings of at most LevMaxLen
\* characters over LevAlphabet
InitDistance == InitWith(0, FALSE, 0, BootTime)
NextDistance == levenshtein_call
SpecDistance == InitDistance /\ [][NextDistance]_vars

\* send_combo alone, called once with any of the arguments above
InitCombo == InitWith(0, FALSE, 0, BootTime)
NextCombo == send_combo_call
SpecCombo == InitCombo /\ [][NextCombo]_vars

\* _parse_json_response alone, called once with any reply of at most
\* MaxSegments segments
InitParse == InitWith(0, FALSE, 0, BootTime)
NextParse == parse_json_response_call
SpecParse == InitParse /\ [][NextParse]_vars

\* Two pushes, one dispatch at a time, with every way a dispatch can end: the
\* language model may fail or answer with something that is no object, and
\* the bridge may fail any request, the emergency speech included.  The
\* upstream caller may push or not; every thread of the relay that can take
\* a step eventually takes one, so every outbound call returns.
InitRelease == InitWith(GateEvents, FALSE, NoLimit, BootTime)
ReleaseSteps ==
    \/ \E e \in Events : do_POST_start(e)
    \/ \E e \in Events : process_voice_enter(e)
    \/ \E e \in Events : process_voice_busy(e)
    \/ Processing
    \/ \E t \in Threads : bridge_chk(t)
    \/ \E t \in Threads : bridge_fo(t)
NextRelease == (\E e \in Events : do_POST_push(e)) \/ ReleaseSteps
SpecRelease == InitRelease /\ [][NextRelease]_vars /\ WF_vars(ReleaseSteps)

\* One caller calls the bridge again and again, and time passes, while the
\* two endpoints go down and come up until the network settles with at
\* least one of them up.
InitFailover == InitWith(0, FALSE, 0, BootTime)
ClientSteps == client_can_attempt \/ client_urlopen \/ client_failover
NextFailover == network_change \/ network_settle \/ clock_advance \/ ClientSteps
SpecFailover ==
    /\ InitFailover
    /\ [][NextFailover]_vars
    /\ WF_vars(ClientSteps)
    /\ WF_vars(clock_advance)

\* SpecGate with /conversation/clear arriving at any moment.
InitClear == InitWith(GateEvents, FALSE, 0, BootTime)
NextClear == NextGate \/ do_POST_clear
SpecClear == InitClear /\ [][NextClear]_vars

\* One dispatch and its check_sensors thread share the breaker; the bridge
\* may fail any request, the probe has returned, and check_sensors has not
\* run yet.
InitWarning == InitWith(BreakerEvents, FALSE, NoLimit, 0)
NextWarning ==
    \/ Ingress
    \/ Processing
    \/ Sensors
    \/ \E t \in Threads : bridge_chk(t)
    \/ \E t \in Threads : bridge_fo(t)
SpecWarning == InitWarning /\ [][NextWarning]_vars

\* The whole relay
Init == InitWith(NumEvents, TRUE, NoLimit, 0)
Next ==
    \/ NextGate
    \/ NextBreaker
    \/ NextHistory
    \/ NextStatus
    \/ NextLocks
    \/ NextReflex
    \/ NextDistance
    \/ NextCombo
    \/ NextParse
    \/ NextRelease
    \/ NextFailover
    \/ NextClear
    \/ NextWarning
Spec == Init /\ [][Next]_vars

(***************************************************************************)
(* The single-flight gate and the ingress (SpecGate)                       *)
(***************************************************************************)
\* Event e's thread is between the acquire and the release of _processing_lock
InGate(e) == pc[Tv(e)] \notin {"unborn", "acquire", "dropped", "done"}

Range(q) == {q[i] : i \in 1..Len(q)}

\* The position of an acknowledged event in the order of acknowledgments
AckPos(e) == CHOOSE i \in 1..Len(accepted) : accepted[i] = e

\* C1: at any instant at most one thread is inside the gated section, and it is
\* the thread the lock names as its holder; this holds when several events
\* arrive at the gate together.
C1_MutualExclusion ==
    \A a, b \in Events :
        InGate(a) /\ InGate(b) => a = b /\ processing_lock = a

\* One event is inside the gated section with directives already sent while
\* another has arrived at the gate.
C1_Witness ==
    \E a, b \in Events :
        /\ a # b
        /\ InGate(a)
        /\ dispatched # <<>>
        /\ pc[Tv(b)] = "acquire"

\* C2: a dispatch thread that finds the gate held is dropped at once: the step
\* sends nothing, calls no language model and leaves the conversation
\* history, the breaker and the gate as they were; the dropped event is never
\* taken up again (no directive, no model call, no sensor check, ever).
C2_BusyDropped ==
    [][\A e \in Events :
          /\ (pc[Tv(e)] = "acquire" /\ processing_lock # 0
                 /\ pc'[Tv(e)] # "acquire")
               => /\ pc'[Tv(e)] = "dropped"
                  /\ UNCHANGED <<bridge_breaker, history, dispatched,
                                 llm_calls, processing_lock, obs>>
          /\ pc[Tv(e)] = "dropped" => pc'[Tv(e)] = "dropped"
          /\ pc'[Tv(e)] = "dropped"
               => /\ e \notin Range(dispatched')
                  /\ llm_calls'[e] = 0
                  /\ stage'[Tv(e)] = "none"
                  /\ pc'[Ts(e)] = "unborn"]_vars

\* An event was dropped while the dispatch holding the gate had sent its
\* directives and written the conversation history.
C2_Witness ==
    \E a, b \in Events :
        /\ pc[Tv(b)] = "dropped"
        /\ processing_lock = a
        /\ dispatched = <<a>>
        /\ history # <<>>

\* C3: of two events acknowledged one after the other, the later one is the
\* one dropped: an event is only dropped while the gate is held by an event
\* that was acknowledged before it.
C3_LaterArrivalDropped ==
    [][\A e \in Events :
          (pc[Tv(e)] = "acquire" /\ pc'[Tv(e)] = "dropped")
              => /\ processing_lock \in Range(accepted)
                 /\ AckPos(processing_lock) < AckPos(e)]_vars

\* C4: directives reach the bridge in the order in which their events were
\* acknowledged.
C4_DispatchInAckOrder ==
    \A i, j \in 1..Len(dispatched) :
        i < j => AckPos(dispatched[i]) < AckPos(dispatched[j])

\* C5: a dispatch thread exists only for an event that was acknowledged
\* before, and a push that has not been answered yet can be acknowledged in
\* every state, whatever the gate, the breaker or a running dispatch.
C5_AckBeforeDispatch ==
    \A e \in Events :
        /\ pc[Tv(e)] # "unborn" => handler[e] = "started" /\ e \in Range(accepted)
        /\ handler[e] = "idle"
             => ENABLED (do_POST_push(e) /\ handler'[e] = "acked")

\* An event is acknowledged, with no thread started for it yet, while another
\* dispatch holds the gate; and an acknowledged event was dropped.
C5_Witness ==
    \E a, b \in Events :
        /\ processing_lock = a
        /\ a # b
        /\ handler[b] = "acked"
        /\ pc[Tv(b)] = "unborn"

(***************************************************************************)
(* The circuit breaker (SpecBreaker)                                       *)
(***************************************************************************)
\* Thread t's bridge call has passed can_attempt and its outcome is not yet
\* recorded
InFlight(t) == stage[t] = "net"

\* Thread t performs the can_attempt of a bridge call in this step
CanAttemptStep(t) ==
    /\ stage[t] = "attempt"
    /\ stage'[t] = "net" \/ pc'[t] # pc[t]

\* C6: counting the failed calls since the last success (or since start-up),
\* right after a failure is recorded the breaker is OPEN if that count has
\* reached the threshold and still CLOSED if it has not, and the failure
\* timestamp is the time of this latest failure.
C6_OpensAtThreshold ==
    obs.op = "record_failure"
        => /\ obs.streak >= threshold => bridge_breaker.state = OPEN
           /\ obs.streak < threshold => bridge_breaker.state = CLOSED
           /\ bridge_breaker.last_failure_time = obs.at

\* The threshold-th failure in a row has just been recorded, later than the
\* first ones.
C6_Witness ==
    /\ obs.op = "record_failure"
    /\ obs.streak = threshold
    /\ obs.pre = CLOSED
    /\ bridge_breaker.state = OPEN
    /\ bridge_breaker.last_failure_time > BootTime

\* C7: a bridge call made while the breaker is OPEN and less than
\* retry_interval has passed since the last failure returns the circuit_open
\* error without a network attempt and leaves the breaker as it was; a call
\* made once the interval has passed moves the breaker to HALF_OPEN and goes
\* out to the network.
C7_OpenRejects ==
    [][\A t \in Threads :
          (CanAttemptStep(t) /\ bridge_breaker.state = OPEN)
              => IF now - bridge_breaker.last_failure_time < retry_interval
                 THEN /\ ~InFlight(t)'
                      /\ pc'[t] = AfterCall(pc[t], "circuit_open", TextOf(t))
                      /\ bridge_breaker' = bridge_breaker
                      /\ dispatched' = dispatched
                 ELSE /\ InFlight(t)'
                      /\ bridge_breaker'
                            = [bridge_breaker EXCEPT !.state = HALF_OPEN]]_vars

\* A call has just been turned away by the open circuit.
C7_Witness ==
    /\ obs.op = "can_attempt"
    /\ obs.grant = "rejected"
    /\ bridge_breaker.state = OPEN
    /\ now - bridge_breaker.last_failure_time < retry_interval

\* C8: while the call that moved the breaker to HALF_OPEN is in flight, no
\* other call is let through to the network.
C8_SingleTrial ==
    \A t, u \in Threads :
        (InFlight(t) /\ grant[t] = "trial" /\ t # u)
            => ~(InFlight(u) /\ grant[u] \in {"trial", "half_open"})

\* C9: when the outcome of the call that moved the breaker to HALF_OPEN is
\* recorded, it decides the state: CLOSED with no failures after a success,
\* OPEN with the failure timestamp set to this failure after a failure.
C9_TrialDecides ==
    [][\A t \in Threads :
          (InFlight(t) /\ grant[t] = "trial" /\ ~InFlight(t)')
              => IF stage'[t] = "chk"
                 THEN /\ bridge_breaker'.state = OPEN
                      /\ bridge_breaker'.last_failure_time = now
                 ELSE /\ bridge_breaker'.state = CLOSED
                      /\ bridge_breaker'.failures = 0]_vars

\* C10: right after a success is recorded, in whatever state the breaker was,
\* the failure counter is 0 and the state is CLOSED.
C10_SuccessCloses ==
    obs.op = "record_success"
        => bridge_breaker.state = CLOSED /\ bridge_breaker.failures = 0

\* A call let through while the circuit was closed has just succeeded after
\* the circuit had opened.
C10_Witness ==
    /\ obs.op = "record_success"
    /\ obs.pre = OPEN
    /\ bridge_breaker.state = CLOSED

\* Thread t's bridge call records its outcome in this step
RecordStep(t) == InFlight(t) /\ ~InFlight(t)'

\* C11: the breaker state changes only from CLOSED to OPEN by the failure that
\* brings the counter to the threshold, from OPEN to HALF_OPEN by a call
\* attempted at least retry_interval after the last failure, from HALF_OPEN to
\* OPEN by a failure, and from any state to CLOSED by a success.
C11_Transitions ==
    [][bridge_breaker'.state # bridge_breaker.state
          => \/ /\ bridge_breaker.state = CLOSED
                /\ bridge_breaker'.state = OPEN
                /\ bridge_breaker'.failures = bridge_breaker.failures + 1
                /\ bridge_breaker'.failures = threshold
                /\ \E t \in Threads : RecordStep(t) /\ stage'[t] = "chk"
             \/ /\ bridge_breaker.state = OPEN
                /\ bridge_breaker'.state = HALF_OPEN
                /\ now - bridge_breaker.last_failure_time >= retry_interval
                /\ \E t \in Threads : CanAttemptStep(t)
             \/ /\ bridge_breaker.state = HALF_OPEN
                /\ bridge_breaker'.state = OPEN
                /\ \E t \in Threads : RecordStep(t) /\ stage'[t] = "chk"
             \/ /\ bridge_breaker'.state = CLOSED
                /\ bridge_breaker'.failures = 0
                /\ \E t \in Threads : RecordStep(t) /\ stage'[t] # "chk"]_vars

\* A failed call has just put the breaker back from HALF_OPEN to OPEN, after
\* the breaker had opened and a call had been let through on trial.
C11_Witness ==
    /\ obs.op = "record_failure"
    /\ obs.pre = HALF_OPEN
    /\ bridge_breaker.state = OPEN

\* Thread t leaves the test `failures == 2` of a failed bridge call in this step
FailoverCheckStep(t) == stage[t] = "chk" /\ stage'[t] # "chk"

\* C12: the active endpoint is swapped by the caller whose failure brought the
\* count to 2, by every such caller, and by nobody else: a caller goes on to
\* try_failover if and only if its own failure was the second in a row, and
\* every change of the active endpoint is the try_failover of such a caller.
C12_FailoverAtTwo ==
    [][/\ \A t \in Threads :
             FailoverCheckStep(t) => (stage'[t] = "fo" <=> second[t])
       /\ bridge_breaker'.active_url # bridge_breaker.active_url
             => \E t \in Threads :
                   stage[t] = "fo" /\ stage'[t] # "fo" /\ second[t]]_vars

\* C13: a step that swaps the active endpoint leaves the failure counter, the
\* breaker state and the last-failure timestamp as they were.
C13_FailoverFrame ==
    [][bridge_breaker'.active_url # bridge_breaker.active_url
          => /\ bridge_breaker'.failures = bridge_breaker.failures
             /\ bridge_breaker'.state = bridge_breaker.state
             /\ bridge_breaker'.last_failure_time
                   = bridge_breaker.last_failure_time]_vars

\* The endpoint has just been swapped to the alternate address by a caller of
\* get/post, and the two failures that led to it are still counted.
C13_Witness ==
    /\ obs.op = "try_failover"
    /\ bridge_breaker.active_url = BRIDGE_URL_TS
    /\ bridge_breaker.failures = FAILOVER_AT
    /\ bridge_breaker.last_failure_time > 0
    /\ pc[Tp] = "done"

(***************************************************************************)
(* The conversation store (SpecHistory)                                    *)
(***************************************************************************)
\* The two entries of the k-th exchange appended since the last clear
Exchange(k) ==
    <<[role |-> "user", content |-> k], [role |-> "assistant", content |-> k]>>

RECURSIVE Exchanges(_, _)
\* The entries of the exchanges from the a-th to the b-th, in arrival order
Exchanges(a, b) == IF a > b THEN <<>> ELSE Exchange(a) \o Exchanges(a + 1, b)

\* C14: once more than MAX_HISTORY exchanges have been appended since the last
\* clear, the history holds exactly 2 * MAX_HISTORY entries: the user and
\* assistant entries of the MAX_HISTORY most recent exchanges, oldest first.
\* Up to the cap it holds all of them.
C14_HistoryCap ==
    adding = "idle"
        => history = Exchanges(IF exchanges > MAX_HISTORY
                                THEN exchanges - MAX_HISTORY + 1 ELSE 1,
                               exchanges)

\* Two exchanges beyond the cap have been appended, and two pairs evicted.
C14_Witness ==
    /\ adding = "idle"
    /\ exchanges = MAX_HISTORY + 2
    /\ Len(history) = 2 * MAX_HISTORY
    /\ history[1] = [role |-> "user", content |-> 3]

\* C15: every snapshot returned by get_messages, under any interleaving with
\* add_exchange and clear, has an even number of entries, at most
\* 2 * MAX_HISTORY of them, alternating user and assistant, each user entry
\* followed by the assistant entry of the same exchange.
C15_SnapshotsWhole ==
    \A e \in Events :
        LET m == messages[e] IN
            /\ Len(m) % 2 = 0
            /\ Len(m) <= 2 * MAX_HISTORY
            /\ \A i \in 1..(Len(m) \div 2) :
                   /\ m[2 * i - 1].role = "user"
                   /\ m[2 * i].role = "assistant"
                   /\ m[2 * i].content = m[2 * i - 1].content

\* One reader holds a full snapshot taken before the cap was passed, another a
\* later one, while a caller of add_exchange has appended only the user entry.
C15_Witness ==
    \E a, b \in Events :
        /\ Len(messages[a]) = 2 * MAX_HISTORY
        /\ Len(messages[b]) = 2 * MAX_HISTORY
        /\ messages[a] # messages[b]
        /\ adding = "user"
        /\ Len(history) = 2 * MAX_HISTORY + 1

(***************************************************************************)
(* The three tiers (SpecGate, SpecBreaker)                                 *)
(***************************************************************************)
\* The call sites of Tier 3 and of Tier 2
Tier3Sites == {"t3_filler", "t3_llm", "t3_combo", "t3_add"}
Tier2Sites == {"t2_status", "t2_look", "t2_chat", "t2_llm", "t2_combo",
               "t2_add", "t2_apology"}

\* Number of exchanges of event e in the history
Appended(e) ==
    Cardinality({i \in 1..Len(history) :
                    history[i] = [role |-> "user", content |-> e]})

\* C16: while a dispatch whose text matches a reflex holds the gate, every
\* step leaves the conversation history as it was and no language-model call
\* is made for it; its only call site is the reflex's send_combo.
C16_ReflexFrame ==
    [][\A e \in Events :
          (InGate(e) /\ match_reflex(text[e]))
              => /\ history' = history
                 /\ llm_calls'[e] = 0
                 /\ replies'[e] = <<>>
                 /\ pc[Tv(e)] \in {"t1_combo", "release"}
                 /\ pc'[Tv(e)] \in {"t1_combo", "release", "done"}]_vars

\* A reflex dispatch has sent its directive and is about to release the gate,
\* the history holding the exchange of an earlier dispatch.
C16_Witness ==
    \E e \in Events :
        /\ text[e] = "sit"
        /\ pc[Tv(e)] = "release"
        /\ dispatched[Len(dispatched)] = e
        /\ llm_calls[e] = 0
        /\ history # <<>>

EnterStep(e) == pc[Tv(e)] = "acquire" /\ InGate(e)'

\* C18: the tiers are tried in the order 1, 3, 2.  A dispatch starts at the
\* reflex's send_combo if the text matches a reflex, whatever keywords it
\* contains, and then makes neither the filler call nor a language-model call;
\* Tier 2 is entered only with a text that matches no reflex, either straight
\* away when no tool-need keyword occurs in it or from the Tier 3 call that
\* came back without a reply.
C18_TierOrder ==
    [][\A e \in Events :
          /\ EnterStep(e)
                => pc'[Tv(e)] = IF match_reflex(text[e]) THEN "t1_combo"
                                ELSE IF needs_agent(text[e]) THEN "t3_filler"
                                ELSE "t2_status"
          /\ (InGate(e) /\ match_reflex(text[e]) /\ needs_agent(text[e]))
                => /\ pc'[Tv(e)] \notin Tier3Sites \cup Tier2Sites
                   /\ llm_calls'[e] = 0
          /\ (pc'[Tv(e)] = "t2_status" /\ pc[Tv(e)] # "t2_status")
                => /\ ~match_reflex(text[e])
                   /\ \/ EnterStep(e) /\ ~needs_agent(text[e])
                      \/ /\ pc[Tv(e)] = "t3_llm"
                         /\ needs_agent(text[e])
                         /\ replies'[e] = <<"none">>
          /\ (pc'[Tv(e)] \in Tier2Sites /\ pc[Tv(e)] \notin Tier2Sites)
                => pc'[Tv(e)] = "t2_status"]_vars

\* "light" matches a reflex and contains a tool-need keyword: its dispatch has
\* sent the reflex directive and is about to release the gate.
C18_Witness ==
    \E e \in Events :
        /\ text[e] = "light"
        /\ pc[Tv(e)] = "release"
        /\ dispatched[Len(dispatched)] = e
        /\ llm_calls[e] = 0

\* C19: for a text that matches no reflex and contains a tool-need keyword the
\* dispatch starts with the filler call, and the tool-augmented
\* language-model call is reached only by the return of that filler call.
C19_FillerFirst ==
    [][\A e \in Events :
          /\ (EnterStep(e) /\ ~match_reflex(text[e]) /\ needs_agent(text[e]))
                => pc'[Tv(e)] = "t3_filler" /\ llm_calls'[e] = 0
          /\ (pc'[Tv(e)] = "t3_llm" /\ pc[Tv(e)] # "t3_llm")
                => /\ pc[Tv(e)] = "t3_filler"
                   /\ stage[Tv(e)] \in {"attempt", "net", "chk", "fo"}
                   /\ stage'[Tv(e)] = "none"
                   /\ llm_calls'[e] = 0
          /\ llm_calls'[e] # llm_calls[e]
                => pc[Tv(e)] \in {"t3_llm", "t2_llm"}]_vars

\* The filler of "what's the weather" has reached the bridge and returned; the
\* tool-augmented call has not been made yet.
C19_Witness ==
    \E e \in Events :
        /\ text[e] = "what's the weather"
        /\ pc[Tv(e)] = "t3_llm"
        /\ dispatched[Len(dispatched)] = e
        /\ llm_calls[e] = 0

\* C20: when the Tier 3 call comes back without a reply the same dispatch goes
\* on to Tier 2 with the same text, still holding the gate, raising nothing
\* and with the history as it was; when Tier 3 returned a directive the
\* dispatch sends it, appends the exchange and ends without entering Tier 2.
C20_Tier3Fallback ==
    [][\A e \in Events :
          /\ (pc[Tv(e)] = "t3_llm" /\ pc'[Tv(e)] # "t3_llm")
                => /\ replies'[e] = <<"none">>
                     => /\ pc'[Tv(e)] = "t2_status"
                        /\ text'[e] = text[e]
                        /\ processing_lock' = e
                        /\ history' = history
                        /\ Appended(e) = 0
                   /\ replies'[e] = <<"dict">> => pc'[Tv(e)] = "t3_combo"
          /\ (InGate(e) /\ replies[e] # <<>> /\ replies[e][1] = "dict"
                 /\ needs_agent(text[e]))
                => /\ pc[Tv(e)] \in {"t3_combo", "t3_add", "release"}
                   /\ pc'[Tv(e)] \in {"t3_combo", "t3_add", "release", "done"}
                   /\ llm_calls'[e] = 1]_vars

\* A dispatch whose Tier 3 call came back without a reply is in Tier 2, about
\* to send the directive of the conversational call.
C20_Witness ==
    \E e \in Events :
        /\ replies[e] = <<"none", "dict">>
        /\ pc[Tv(e)] = "t2_combo"
        /\ processing_lock = e
        /\ Appended(e) = 0

(***************************************************************************)
(* Failure paths of the dispatch (SpecGate, SpecDispatch)                  *)
(***************************************************************************)
\* The step of event e's thread in which its bridge call at `site` ends
LeavesSite(e, site) == pc[Tv(e)] = site /\ pc'[Tv(e)] # site

\* C21: when the Tier 2 language-model call comes back without a reply, the
\* dispatch goes to the send_combo of the fixed apology (no actions, the
\* apology sentence, mood "sad") and to nothing else, and from there to the
\* release of the gate; none of these steps changes the history, which holds
\* no exchange of the event when the gate is released.
C21_Tier2Apology ==
    [][\A e \in Events :
          /\ (LeavesSite(e, "t2_llm")
                 /\ replies'[e][Len(replies'[e])] = "none")
                => /\ pc'[Tv(e)] = "t2_apology"
                   /\ stage'[Tv(e)] = "attempt"
                   /\ history' = history
          /\ pc'[Tv(e)] = "t2_apology"
                => /\ pc[Tv(e)] \in {"t2_llm", "t2_apology"}
                   /\ replies'[e][Len(replies'[e])] = "none"
          /\ pc[Tv(e)] = "t2_apology"
                => /\ pc'[Tv(e)] \in {"t2_apology", "release"}
                   /\ Appended(e)' = 0
          /\ (pc[Tv(e)] = "t2_apology" /\ stage[Tv(e)] # stage'[Tv(e)])
                => history' = history]_vars

\* The conversational call of a dispatch came back without a reply, the apology
\* has reached the bridge, and the history still holds the earlier exchange
\* alone.
C21_Witness ==
    \E e \in Events :
        /\ replies[e] = <<"none">>
        /\ pc[Tv(e)] = "release"
        /\ dispatched[Len(dispatched)] = e
        /\ Appended(e) = 0
        /\ Len(history) = 2

\* The call sites that send the directive a dispatch ends with
FinalSites == {"t1_combo", "t3_combo", "t2_combo", "t2_apology", "emergency"}

\* C22: when a dispatch that passed the gate ends, the bridge has answered at
\* least one of the directives it sent (the filler, the tier's directive, the
\* apology or the emergency sentence).
C22_NeverSilent ==
    \A e \in Events : pc[Tv(e)] = "release" => delivered[e]

\* The step of event e's thread in which something fails: a language-model
\* call comes back without a usable directive, or a bridge call of the
\* dispatch is rejected by the breaker, fails in transport or returns
\* something that is no object.
FailureStep(e) ==
    \/ /\ pc[Tv(e)] \in {"t3_llm", "t2_llm"}
       /\ replies'[e] # replies[e]
       /\ replies'[e][Len(replies'[e])] # "dict"
    \/ /\ stage[Tv(e)] \in {"attempt", "chk", "fo"}
       /\ pc'[Tv(e)] # pc[Tv(e)]
    \/ /\ stage[Tv(e)] = "net"
       /\ pc[Tv(e)] \in GetSites
       /\ pc'[Tv(e)] = "emergency"

\* C23: whatever fails inside a dispatch, its thread stays inside
\* process_voice holding the gate: it is at a call site or at the release
\* that follows the directive.  A failure before the dispatch's directive
\* leads to a call site from which a directive is still sent (the tier's own,
\* the apology or the emergency sentence); the failure of that directive
\* itself leads to the release, and the release ends the thread normally.
C23_FailuresContained ==
    [][\A e \in Events :
          /\ FailureStep(e)
                => /\ InGate(e)'
                   /\ processing_lock' = e
                   /\ pc[Tv(e)] \notin FinalSites
                         => pc'[Tv(e)] \notin {"t3_add", "t2_add", "release"}
                   /\ pc[Tv(e)] \in FinalSites
                         => pc'[Tv(e)] \in {"t3_add", "t2_add", "release"}
          /\ (pc'[Tv(e)] = "emergency" /\ pc[Tv(e)] # "emergency")
                => FailureStep(e) /\ stage'[Tv(e)] = "attempt"
          /\ (pc[Tv(e)] = "release" /\ pc'[Tv(e)] # "release")
                => pc'[Tv(e)] = "done" /\ processing_lock' = 0]_vars

\* The worst case: the tool-augmented call failed, the conversational call
\* returned something the dispatch raised on, the circuit had opened meanwhile
\* and rejected the emergency sentence; the thread is at the release.
C23_Witness ==
    \E e \in Events :
        /\ replies[e] = <<"none", "bad">>
        /\ pc[Tv(e)] = "release"
        /\ processing_lock = e
        /\ ~delivered[e]
        /\ bridge_breaker.state = OPEN
        /\ obs.op = "can_attempt"
        /\ obs.grant = "rejected"

\* The call sites of a dispatch before its directive, and what follows it
BeforeFinal == {"t3_filler", "t3_llm", "t2_status", "t2_look", "t2_chat",
                "t2_llm"}
AfterFinal == {"t3_add", "t2_add", "release"}

\* C24: a dispatch that passed the gate goes through the call sites in three
\* phases: the sites before its directive, then exactly one of the sites
\* that send a final directive (a send_combo or the emergency sentence), then
\* add_exchange and the release.  It never moves from one final site to
\* another, reaches the release through a final site only, and is at the
\* filler call only as its first step.
C24_OneFinalDirective ==
    [][\A e \in Events :
          LET p == pc[Tv(e)]
              q == pc'[Tv(e)]
          IN  p # q
                => /\ EnterStep(e) => q \in BeforeFinal \cup FinalSites
                   /\ p \in BeforeFinal => q \in BeforeFinal \cup FinalSites
                   /\ p \in FinalSites => q \in AfterFinal
                   /\ p \in {"t3_add", "t2_add"} => q = "release"
                   /\ p = "release" => q = "done"
                   /\ q = "t3_filler" => p = "acquire"
                   /\ q \in FinalSites => stage'[Tv(e)] = "attempt"]_vars

\* The longest path: the filler was sent, the tool-augmented call failed, the
\* conversational call returned a directive, which was delivered and
\* remembered; the dispatch is at the release.
C24_Witness ==
    \E e \in Events :
        /\ replies[e] = <<"none", "dict">>
        /\ pc[Tv(e)] = "release"
        /\ delivered[e]
        /\ Appended(e) = 1
        /\ bridge_breaker.failures > 0

(***************************************************************************)
(* The battery check (SpecSensors, SpecPeriodic)                           *)
(***************************************************************************)
\* check_sensors of event e has read a low battery with the flag down and is
\* sending the warning, or has sent it and is about to raise the flag.
Warning(e) == pc[Ts(e)] \in {"s_warn", "s_mark"}

\* C25: the warning is sent once per discharge.  No check_sensors run decides
\* to warn while the warning of another run, which no reading at or above 7.0 V
\* has followed, is under way; this is what the flag stands for when several
\* runs overlap.
C25_OneWarning ==
    \A e1, e2 \in Events : (Warning(e1) /\ Warning(e2)) => e1 = e2

\* C26: the battery check runs on its own schedule: whether or not an
\* utterance is ever pushed, a check_sensors run eventually starts (and with
\* it the reading of the battery that a warning depends on).
C26_CheckRunsUnprompted ==
    <>(\E e \in Events : pc[Ts(e)] # "unborn")

(***************************************************************************)
(* The status handler and the locks (SpecStatus)                           *)
(***************************************************************************)
\* A dispatch is inside a call to the language model or to the bridge
Blocked(e) ==
    \/ pc[Tv(e)] \in {"t3_llm", "t2_llm"}
    \/ stage[Tv(e)] = "net"

\* C27: a status or health query that has arrived can be answered in every
\* state, in particular while a dispatch holds the gate and is inside a
\* language-model or bridge call: its handler waits for nothing but, for
\* /status, the lock of the conversation store.
C27_StatusNeverBlocked ==
    status_query.at = "do_GET" => ENABLED do_GET_reply

\* A /status query was answered while the dispatch holding the gate was
\* waiting for the conversational language model; the answer counts the one
\* exchange of the earlier dispatch, and the dispatch is still waiting.
C27_Witness ==
    /\ status_query.at = "served"
    /\ status_query.path = "/status"
    /\ status_query.behind = "t2_llm"
    /\ status_query.reply.conversation_history = 1
    /\ \E e \in Events : processing_lock = e /\ Blocked(e)

Returned(ret, k) ==
    /\ ret.via \in {"exact", "fuzzy"}
    /\ ret.entry.actions = REFLEXES[k].actions
    /\ ret.entry.speak = REFLEXES[k].speak
    /\ ret.entry.emotion = REFLEXES[k].emotion

\* C29: match_reflex applied to a trigger key of the table returns that key's
\* own entry (actions, speech, mood), found by the exact lookup and never by
\* distance, and so never the entry of another trigger; "sit" and "sitz"
\* both return the action list [sit] with the mood happy.
C29_TriggerReturnsOwnEntry ==
    /\ reflex_call.text \in Triggers
        => /\ reflex_call.ret.via = "exact"
           /\ \A k \in 1..Len(REFLEXES) :
                 REFLEXES[k].trigger = reflex_call.text
                     => /\ reflex_call.ret.trigger = REFLEXES[k].trigger
                        /\ Returned(reflex_call.ret, k)
    /\ reflex_call.text \in {<<"s", "i", "t">>, <<"s", "i", "t", "z">>}
        => /\ reflex_call.ret.via = "exact"
           /\ reflex_call.ret.entry.actions = <<"sit">>
           /\ reflex_call.ret.entry.emotion = "happy"

\* match_reflex has been called with "sitz" and has returned the entry of
\* "sitz", found by the exact lookup.
C29_Witness ==
    /\ reflex_call.text = <<"s", "i", "t", "z">>
    /\ reflex_call.ret.via = "exact"
    /\ reflex_call.ret.entry.actions = <<"sit">>

OneEdit(s) ==
    {SubSeq(s, 1, i - 1) \o SubSeq(s, i + 1, Len(s)) : i \in 1..Len(s)}
    \cup {[s EXCEPT ![i] = c] : i \in 1..Len(s), c \in LevAlphabet}
    \cup {SubSeq(s, 1, i) \o <<c>> \o SubSeq(s, i + 1, Len(s)) :
             i \in 0..Len(s), c \in LevAlphabet}

RECURSIVE WithinEdits(_, _, _)
\* The strings of at most len characters that n or fewer edits make of s1,
\* none of the strings on the way being longer than len
WithinEdits(s1, n, len) ==
    IF n = 0 THEN {s1}
    ELSE LET nearer == WithinEdits(s1, n - 1, len)
         IN  nearer \cup {s \in UNION {OneEdit(r) : r \in nearer} :
                             Len(s) <= len}

\* The least number of single-character edits that turn s1 into s2.  No
\* shortest sequence of edits needs a string longer than the longer of the
\* two, and the longer of the two lengths is always enough edits.
MinEdits(s1, s2) ==
    LET len == IF Len(s1) < Len(s2) THEN Len(s2) ELSE Len(s1)
    IN  CHOOSE n \in 0..len :
            /\ s2 \in WithinEdits(s1, n, len)
            /\ \A k \in 0..n - 1 : s2 \notin WithinEdits(s1, k, len)

\* C31: _levenshtein(a, b) is the least number of single-character
\* insertions, deletions and substitutions that turn a into b, whichever of
\* the two is longer; it is the same for (b, a); and when one of the two is
\* empty it is the length of the other.
C31_LevenshteinIsEditDistance ==
    lev_call # NoDistance
        => /\ lev_call.ret = MinEdits(lev_call.s1, lev_call.s2)
           /\ lev_call.ret = levenshtein(lev_call.s2, lev_call.s1)
           /\ lev_call.s1 = <<>> => lev_call.ret = Len(lev_call.s2)
           /\ lev_call.s2 = <<>> => lev_call.ret = Len(lev_call.s1)

\* _levenshtein has been called with the shorter string first and has
\* returned 3 for "ab" and "baaa": one substitution and two insertions.
C31_Witness ==
    /\ lev_call.s1 = <<"a", "b">>
    /\ lev_call.s2 = <<"b", "a", "a", "a">>
    /\ lev_call.ret = 3


(***************************************************************************)
(* The mood-to-light mapping                                               *)
(***************************************************************************)
\* The caller has given send_combo a light setting: a dict that is not empty
LightGiven(rgb) == rgb.type = "dict" /\ rgb.len > 0

\* C32: every combo send_combo hands to the bridge carries a light setting.
\* With no light setting given by the caller it is the table's entry for a
\* mood of the table and the entry of "neutral" for any other mood, the empty
\* one and None included; a light setting given by the caller is sent as it
\* is, whatever the mood.
C32_LightAlwaysSet ==
    combo_call # NoCombo
        => /\ combo_call.at = "bridge_post"
           /\ "rgb" \in DOMAIN combo_call.combo
           /\ LightGiven(combo_call.rgb)
                => combo_call.combo["rgb"] = combo_call.rgb
           /\ ~LightGiven(combo_call.rgb)
                => \E e \in DOMAIN EMOTION_RGB :
                      /\ combo_call.combo["rgb"].items = EMOTION_RGB[e]
                      /\ IF combo_call.emotion.type = "str"
                            /\ combo_call.emotion.value \in DOMAIN EMOTION_RGB
                         THEN e = combo_call.emotion.value
                         ELSE e = "neutral"

\* send_combo has been called with the mood "angry", which the table does not
\* have, and no light setting, and has sent the entry of "neutral".
C32_Witness ==
    /\ combo_call.at = "bridge_post"
    /\ combo_call.emotion = Str("angry")
    /\ combo_call.rgb = PyNone
    /\ combo_call.combo["rgb"].items.r = 128
    /\ combo_call.combo["rgb"].items.b = 255


(***************************************************************************)
(* The reply parser                                                        *)
(***************************************************************************)
\* Where the objects embedded in s start and end
ObjectsIn(s) ==
    {p \in (1..Len(s)) \X (1..Len(s)) :
        p[1] < p[2] /\ IsObject(SubSeq(s, p[1], p[2]))}

\* The first balanced top-level object of s: the embedded object that starts
\* first
FirstObject(s) ==
    LET p == CHOOSE p \in ObjectsIn(s) : \A q \in ObjectsIn(s) : p[1] <= q[1]
    IN  SubSeq(s, p[1], p[2])

\* s is an object in a fenced block, with nothing but prose around the block
FencedObject(s, body) ==
    \E i, j \in 1..Len(s) :
        /\ i < j
        /\ s[i] = FENCE /\ s[j] = FENCE
        /\ \A k \in 1..Len(s) : k \notin {i, j} => s[k] # FENCE
        /\ \A k \in (1..i - 1) \cup (j + 1..Len(s)) : s[k] \in {"w", " "}
        /\ body = IF i + 1 < j /\ s[i + 1] = "json"
                  THEN SubSeq(s, i + 2, j - 1)
                  ELSE SubSeq(s, i + 1, j - 1)
        /\ IsObject(strip(body))

\* s is loose text with objects in it: prose and blanks around and between
\* one or more whole objects
LooseText(s) ==
    /\ ObjectsIn(s) # {}
    /\ \A k \in 1..Len(s) :
          \/ s[k] \in {"w", " "}
          \/ \E p \in ObjectsIn(s) : p[1] <= k /\ k <= p[2]

\* C33: the parser returns the object when the reply is an object; the
\* object of the block when the reply holds an object in a fenced block; the
\* first balanced top-level object when the reply is loose text with objects
\* in it, so the first of two separate objects; and when the reply holds no
\* object, the speech-only directive: the raw text as speech, no actions,
\* the mood neutral.  (Replies holding a bare number are left aside.)
C33_ParserRecoversObject ==
    LET s == parse_call.text
        ret == parse_call.ret
    IN  parse_call # NoParse /\ (\A k \in 1..Len(s) : s[k] # "n")
        => /\ IsObject(strip(s))
                => ret.via # "fallback" /\ ret.value.object = NoBlanks(s)
           /\ \A i, j \in 1..Len(s) :
                 FencedObject(s, SubSeq(s, i, j))
                     => /\ ret.via # "fallback"
                        /\ ret.value.object = NoBlanks(SubSeq(s, i, j))
           /\ LooseText(s)
                => /\ ret.via # "fallback"
                   /\ ret.value.object = NoBlanks(FirstObject(s))
           /\ ObjectsIn(s) = {}
                => /\ ret.via = "fallback"
                   /\ ret.speak = strip(s)
                   /\ ret.actions = <<>>
                   /\ ret.emotion = "neutral"


(***************************************************************************)
(* The release of the gate (SpecRelease)                                   *)
(***************************************************************************)
\* C34: a dispatch that has acquired the gate releases it when it ends,
\* however it ends: the step that ends it frees the gate, and no ended
\* dispatch holds it.  Every outbound call returning, a held gate is
\* eventually free again; and a push is dropped only while another dispatch
\* holds the gate and has not ended, so a push that arrives after the
\* completion is processed.
C34_GateAlwaysReleased ==
    /\ [](\A e \in Events : pc[Tv(e)] = "done" => processing_lock # e)
    /\ [][\A e \in Events :
             pc[Tv(e)] # "done" /\ pc'[Tv(e)] = "done"
                 => processing_lock = e /\ processing_lock' = 0]_vars
    /\ \A e \in Events :
          (processing_lock = e) ~> (processing_lock = 0 /\ pc[Tv(e)] = "done")
    /\ [][\A f \in Events :
             pc[Tv(f)] # "dropped" /\ pc'[Tv(f)] = "dropped"
                 => \E e \in Events \ {f} : processing_lock = e /\ InGate(e)]_vars

\* One dispatch has ended and the gate has admitted the other, which has
\* raised after a language-model reply that is no object; its emergency
\* speech has not been delivered either, and it is about to release the gate.
C34_Witness ==
    \E a, b \in Events :
        /\ pc[Tv(a)] = "done"
        /\ processing_lock = b
        /\ pc[Tv(b)] = "release"
        /\ replies[b] # <<>>
        /\ replies[b][Len(replies[b])] = "bad"
        /\ ~delivered[b]
        /\ bridge_breaker.state = OPEN


(***************************************************************************)
(* The breaker's state and its failure counter                             *)
(***************************************************************************)
\* C35: in every state the breaker reaches, whatever the order in which the
\* threads call record_success, record_failure and can_attempt, the circuit
\* is CLOSED exactly when the failure counter is below the threshold and
\* OPEN or HALF_OPEN exactly when the counter has reached it; the counter is
\* never negative.
C35_StateTracksCounter ==
    /\ bridge_breaker.state = CLOSED <=> bridge_breaker.failures < threshold
    /\ bridge_breaker.state \in {OPEN, HALF_OPEN}
           <=> bridge_breaker.failures >= threshold
    /\ bridge_breaker.failures >= 0

\* Two calls were let through while the circuit was closed; the failure of
\* the first has opened it and the failure of the second has just been
\* recorded with the circuit already open: the counter is past the threshold.
C35_Witness ==
    /\ bridge_breaker.state = OPEN
    /\ bridge_breaker.failures > threshold
    /\ obs.op = "record_failure"
    /\ obs.pre = OPEN
    /\ obs.grant = "closed"


(***************************************************************************)
(* Failover between the two endpoints (SpecFailover)                       *)
(***************************************************************************)
\* C36: once at least one of the two endpoints is up for good and calls keep
\* being made, a call eventually succeeds and the circuit is CLOSED again:
\* the client does not stay bound to an endpoint that is down while the
\* other one is up.
C36_FailoverRecovers ==
    network.settled ~> (network.served /\ bridge_breaker.state = CLOSED)


(***************************************************************************)
(* /conversation/clear and the dispatches in flight (SpecClear)            *)
(***************************************************************************)
\* C37: once /conversation/clear has completed, the history holds no
\* exchange of an utterance that was pushed before the clear: it stays empty
\* until the dispatch of an utterance pushed after the clear appends to it,
\* also when a dispatch was in flight during the clear.
C37_NothingSurvivesClear ==
    cleared.done
        => \A i \in 1..Len(history) : history[i].content \notin cleared.before


(***************************************************************************)
(* The low-battery flag and the warning's post (SpecWarning)               *)
(***************************************************************************)
\* C38: the low-battery flag becomes true only when the warning has been
\* transmitted to the bridge: a check_sensors thread whose warning was
\* rejected by the open circuit or failed in transport leaves the flag
\* false, so that a later check warns again.
C38_FlagOnlyAfterDelivery ==
    [][\A e \in Events :
          /\ (pc[Ts(e)] = "s_mark" /\ pc'[Ts(e)] # "s_mark"
                 /\ battery_warned' /\ ~battery_warned)
               => warning[e] = "sent"
          /\ (pc[Ts(e)] = "s_mark" /\ pc'[Ts(e)] # "s_mark"
                 /\ warning[e] \in {"rejected", "failed"})
               => ~battery_warned']_vars

=============================================================================
